---- MODULE Spec2Model ----
(***************************************************************************)
(* Model of the chat client: the App component (message transcript, chat   *)
(* sessions, sendMessage with its simulated word-by-word streaming), the   *)
(* MarkdownRenderer block pass of ChatWindow with detectLanguage,          *)
(* renderInlineMarkdown and the copy buttons, and AuthProvider.            *)
(*                                                                         *)
(* A JavaScript string is a sequence of one-character strings.  Message    *)
(* objects live in a heap and arrays hold references to them, because the  *)
(* state updaters of sendMessage mutate message objects in place.          *)
(***************************************************************************)
EXTENDS Integers, Sequences, FiniteSets, TLC

VARIABLES
    variant,            \* which App of App.tsx runs: "local" or "auth"
    heap,               \* message objects: heap[o] = [role, content, isStreaming]
    messages,           \* App state messages: references into heap
    sessions,           \* App state sessions: [id, title, messages]
    currentSessionId,   \* App state currentSessionId (NewSession stands for 'new')
    inputValue,         \* App state inputValue
    loading,            \* App state loading
    user,               \* authenticated App state user ("null" or a user name)
    token,              \* authenticated App state token ("null" or a token)
    localStorage,       \* the authToken / authUser entries of localStorage
    pc,                 \* where the running sendMessage is suspended
    snd,                \* the local variables of the running sendMessage
    loginError,         \* authenticated App state loginError
    loginPc,            \* "request" while handleLogin awaits /auth/login
    historyPending,     \* loadChatHistory calls that await /chats/history
    saved,              \* the chats stored by the backend through /chats/save
    loginCount,         \* number of logins the backend has accepted
    sendCount,          \* number of sendMessage calls started so far
    lines,              \* MarkdownRenderer: text.split('\n')
    i,                  \* MarkdownRenderer: the cursor
    elements,           \* MarkdownRenderer: the blocks pushed so far
    code,               \* detectLanguage: argument code
    specifiedLang,      \* detectLanguage: argument specifiedLang
    detectedLang,       \* detectLanguage: the value returned
    inlineText,         \* renderInlineMarkdown: argument text
    parts,              \* renderInlineMarkdown: the nodes pushed so far
    lastIndex,          \* renderInlineMarkdown: lastIndex
    match,              \* renderInlineMarkdown: match
    inlinePc,           \* renderInlineMarkdown: "exec" at the loop test, "body"
                        \* in the loop body, "rest" after the loop, then "done"
    copied,             \* CopyButton / CopyTableButton state copied
    timers,             \* the pending setTimeout callbacks of each button
    now,                \* the clock, in milliseconds
    lastCopy,           \* when each button last set copied to true (-1: never)
    clipboard,          \* whether the browser has navigator.clipboard
    lastWrite,          \* how the last copyToClipboard call of each button ended
    overlapped,         \* whether a button was clicked while its timer was pending
    isGuest,            \* AuthProvider state isGuest
    authPending         \* AuthProvider: login / signup calls awaiting fetch

chatVars == <<variant, heap, messages, sessions, currentSessionId, inputValue,
              loading, user, token, localStorage, loginError, loginPc,
              historyPending, saved, loginCount, pc, snd, sendCount>>
mdVars == <<lines, i, elements>>
langVars == <<code, specifiedLang, detectedLang>>
inlineVars == <<inlineText, parts, lastIndex, match, inlinePc>>
copyVars == <<copied, timers, now, lastCopy, clipboard, lastWrite, overlapped>>
providerVars == <<isGuest, authPending>>
vars == <<variant, heap, messages, sessions, currentSessionId, inputValue,
          loading, user, token, localStorage, loginError, loginPc,
          historyPending, saved, loginCount, pc, snd, sendCount,
          lines, i, elements, code, specifiedLang, detectedLang,
          inlineText, parts, lastIndex, match, inlinePc, copied, timers, now, lastCopy,
          clipboard, lastWrite, overlapped, isGuest, authPending>>

----------------------------------------------------------------------------
(* Bounds *)

MaxSends == 2
MaxLogins == 1
MaxRespLen == 1
MaxStreamLen == 3
MaxLines == 3
MaxFrags == 2
MaxInlineLen == 4
MaxPending == 2
MaxClock == 5000

----------------------------------------------------------------------------
(* Strings *)

Whitespace == {" ", "\t", "\n"}

RECURSIVE SplitOn(_, _)
\* String.prototype.split(sep) for a one-character separator
SplitOn(s, sep) ==
    IF \A k \in 1..Len(s) : s[k] # sep
    THEN <<s>>
    ELSE LET p == CHOOSE k \in 1..Len(s) :
                      s[k] = sep /\ \A j \in 1..(k - 1) : s[j] # sep
         IN <<SubSeq(s, 1, p - 1)>> \o SplitOn(SubSeq(s, p + 1, Len(s)), sep)

RECURSIVE JoinWith(_, _)
\* Array.prototype.join(sep)
JoinWith(ws, sep) ==
    IF Len(ws) = 0 THEN <<>>
    ELSE IF Len(ws) = 1 THEN ws[1]
    ELSE ws[1] \o <<sep>> \o JoinWith(Tail(ws), sep)

RECURSIVE TrimStart(_)
TrimStart(s) ==
    IF Len(s) > 0 /\ s[1] \in Whitespace THEN TrimStart(Tail(s)) ELSE s

RECURSIVE TrimEnd(_)
TrimEnd(s) ==
    IF Len(s) > 0 /\ s[Len(s)] \in Whitespace
    THEN TrimEnd(SubSeq(s, 1, Len(s) - 1)) ELSE s

\* String.prototype.trim()
Trim(s) == TrimEnd(TrimStart(s))

\* String.prototype.startsWith(p)
StartsWith(s, p) == Len(s) >= Len(p) /\ SubSeq(s, 1, Len(p)) = p

\* String.prototype.includes(c) for a one-character c
Includes(s, c) == \E k \in 1..Len(s) : s[k] = c

RECURSIVE StringsUpTo(_, _)
\* all strings over alphabet of length at most n
StringsUpTo(alphabet, n) ==
    IF n = 0 THEN {<<>>}
    ELSE LET shorter == StringsUpTo(alphabet, n - 1)
         IN shorter \cup {Append(s, c) : s \in shorter, c \in alphabet}

----------------------------------------------------------------------------
(* App: state and helpers *)

NewSession == 0     \* stands for the currentSessionId 'new'

RespAlphabet == {"a", " "}
Responses == StringsUpTo(RespAlphabet, MaxRespLen)  \* response.data.response
\* replies with a newline next to spaces
NewlineResponses ==
    { <<" ", " ", "\n">>, <<"a", "\n", "a">>, <<"\n", " ", "a">>, <<"a", " ", "\n">> }
LongResponses == StringsUpTo(RespAlphabet, MaxStreamLen) \cup NewlineResponses
InputTexts == {<<"q">>, <<" ">>}                    \* what the user types
Prompt == <<"q">>                                   \* a prompt card of ChatWindow
ErrorText == <<"E">>                                \* the substituted error string
GeneratedTitle == <<"q">>                           \* a title returned by /chat

NoSend == [userMessage |-> 0, assistantMessage |-> 0, newMessages |-> <<>>,
           isNewChat |-> FALSE, currentSessionId |-> NewSession,
           user |-> "null", token |-> "null",
           fullContent |-> <<>>, words |-> <<>>, i |-> 0, currentText |-> <<>>,
           title |-> <<>>]

\* const userMessage = { role: 'user', content: inputValue }
UserMessage(text) == [role |-> "user", content |-> text, isStreaming |-> "absent"]

\* { role: 'assistant', content: '', isStreaming: true }
AssistantPlaceholder == [role |-> "assistant", content |-> <<>>, isStreaming |-> "true"]

\* { role: 'assistant', content: fullContent }
AssistantFinal(text) == [role |-> "assistant", content |-> text, isStreaming |-> "absent"]

\* i < words.length - 1, for the 0-based loop index idx
StreamingFlag(idx, n) == IF idx < n - 1 THEN "true" ELSE "false"

\* a loop that appends the words without the separator
NextTextNoSeparator(currentText, idx, word) == currentText \o word

\* a slip that adds the separator before the first word too
NextTextLeadingSpace(currentText, idx, word) == currentText \o <<" ">> \o word

\* a loop that skips the empty words of the split
NextTextSkippingEmpty(currentText, idx, word) ==
    IF word = <<>> THEN currentText
    ELSE currentText \o (IF idx = 0 THEN <<>> ELSE <<" ">>) \o word

\* currentText += (i === 0 ? '' : ' ') + words[i]
NextText(currentText, idx, word) ==
    currentText \o (IF idx = 0 THEN <<>> ELSE <<" ">>) \o word

\* lastMessage && lastMessage.role === 'assistant'
LastIsAssistant(h, msgs) ==
    Len(msgs) > 0 /\ h[msgs[Len(msgs)]].role = "assistant"

\* the updater of the word-reveal loop, applied to the current transcript
RevealUpdater(h, msgs, text, flag) ==
    IF LastIsAssistant(h, msgs)
    THEN [h EXCEPT ![msgs[Len(msgs)]].content = text,
                   ![msgs[Len(msgs)]].isStreaming = flag]
    ELSE h

\* the updater of the final update
FinalUpdater(h, msgs) ==
    IF LastIsAssistant(h, msgs)
    THEN [h EXCEPT ![msgs[Len(msgs)]].isStreaming = "false"]
    ELSE h

\* the updater of the catch block
ErrorUpdater(h, msgs) ==
    IF LastIsAssistant(h, msgs)
    THEN [h EXCEPT ![msgs[Len(msgs)]].content = ErrorText,
                   ![msgs[Len(msgs)]].isStreaming = "false"]
    ELSE h

\* the reference a newly created object gets
NewRef(h) ==
    IF DOMAIN h = {} THEN 1
    ELSE (CHOOSE o \in DOMAIN h : \A r \in DOMAIN h : r <= o) + 1

Range(f) == {f[k] : k \in DOMAIN f}

\* the message objects reachable from the state and from the running send
Live(msgs, ss, s) ==
    Range(msgs) \cup UNION {Range(ss[k].messages) : k \in 1..Len(ss)}
                \cup Range(s.newMessages)
                \cup ({s.userMessage, s.assistantMessage} \ {0})

\* garbage collection: objects that are no longer reachable leave the heap
Collect(h, msgs, ss, s) == [o \in DOMAIN h \cap Live(msgs, ss, s) |-> h[o]]

\* String.prototype.substring(0, 50)
Substring50(s) == SubSeq(s, 1, IF Len(s) < 50 THEN Len(s) ELSE 50)

SessionIds == {sessions[k].id : k \in 1..Len(sessions)}

\* sessions.find(s => s.id === sessionId)
FindSession(sessionId) ==
    sessions[CHOOSE k \in 1..Len(sessions) :
                 sessions[k].id = sessionId
                 /\ \A j \in 1..(k - 1) : sessions[j].id # sessionId]

\* ChatWindow: loading && !messages[messages.length - 1]?.isStreaming
TypingIndicator ==
    loading /\ ~(Len(messages) > 0 /\ heap[messages[Len(messages)]].isStreaming = "true")

\* ChatWindow: messages.length === 0 && isNewChat
EmptyState == Len(messages) = 0 /\ currentSessionId = NewSession

----------------------------------------------------------------------------
(* App: operations *)

\* MarkdownRenderer and the components outside App do nothing
mdIdle == UNCHANGED <<mdVars, langVars, inlineVars, copyVars, providerVars>>
authIdle ==
    UNCHANGED <<variant, user, token, localStorage, loginError, loginPc,
                historyPending, saved, loginCount>>

\* InputArea onChange -> setInputValue; the input is disabled while loading
TypeInput(text) ==
    /\ ~loading
    /\ inputValue' = text
    /\ UNCHANGED <<heap, messages, sessions, currentSessionId, loading, pc, snd,
                   sendCount>>
    /\ authIdle /\ mdIdle

\* handlePromptClick, from a prompt card of the empty state
handlePromptClick ==
    /\ EmptyState
    /\ inputValue' = Prompt
    /\ UNCHANGED <<heap, messages, sessions, currentSessionId, loading, pc, snd,
                   sendCount>>
    /\ authIdle /\ mdIdle

handleNewChat ==
    /\ currentSessionId' = NewSession
    /\ messages' = <<>>
    /\ inputValue' = <<>>
    /\ heap' = Collect(heap, messages', sessions, snd)
    /\ UNCHANGED <<sessions, loading, pc, snd, sendCount>>
    /\ authIdle /\ mdIdle

\* the sidebar lists the sessions of the state, so sessionId is one of them
handleSelectSession(sessionId) ==
    /\ sessionId \in SessionIds
    /\ currentSessionId' = sessionId
    /\ messages' = FindSession(sessionId).messages
    /\ heap' = Collect(heap, messages', sessions, snd)
    /\ UNCHANGED <<sessions, inputValue, loading, pc, snd, sendCount>>
    /\ authIdle /\ mdIdle

\* a send button that loading does not disable
SubmitEnabledWhileLoading == Trim(inputValue) # <<>>

\* InputArea: the input is disabled while loading and the button while
\* loading or the input is blank, so the form can be submitted only if
SubmitEnabled == ~loading /\ Trim(inputValue) # <<>>

\* sendMessage up to the await of the completion request.  The form can be
\* submitted only while the input and the send button are enabled.
sendMessage ==
    /\ SubmitEnabled
    /\ sendCount < MaxSends
    /\ Trim(inputValue) # <<>>
    /\ LET userMessage == NewRef(heap)
           assistantMessage == NewRef(heap) + 1
           newMessages == Append(messages, userMessage)
       IN /\ heap' = heap @@ (userMessage :> UserMessage(inputValue))
                          @@ (assistantMessage :> AssistantPlaceholder)
          /\ messages' = Append(newMessages, assistantMessage)
          /\ snd' = [NoSend EXCEPT !.userMessage = userMessage,
                                   !.assistantMessage = assistantMessage,
                                   !.newMessages = newMessages,
                                   !.isNewChat = (currentSessionId = NewSession),
                                   !.currentSessionId = currentSessionId,
                                   !.user = user,
                                   !.token = token]
    /\ inputValue' = <<>>
    /\ loading' = TRUE
    /\ pc' = "request"
    /\ sendCount' = sendCount + 1
    /\ UNCHANGED <<sessions, currentSessionId>>
    /\ authIdle /\ mdIdle

\* one iteration of the word-reveal loop, up to its setTimeout
RevealWord(s) ==
    LET idx == s.i
        text == NextText(s.currentText, idx, s.words[idx + 1])
    IN /\ heap' = RevealUpdater(heap, messages, text,
                                StreamingFlag(idx, Len(s.words)))
       /\ snd' = [s EXCEPT !.currentText = text, !.i = idx + 1]
       /\ pc' = "delay"

\* the completion request resolves: split the reply and reveal the first word
chatResponse(fullContent) ==
    /\ pc = "request"
    /\ RevealWord([snd EXCEPT !.fullContent = fullContent,
                              !.words = SplitOn(fullContent, " ")])
    /\ UNCHANGED <<messages, sessions, currentSessionId, inputValue, loading,
                   sendCount>>
    /\ authIdle /\ mdIdle

\* the completion request rejects: catch, then finally
chatError ==
    /\ pc = "request"
    /\ loading' = FALSE
    /\ pc' = "idle"
    /\ snd' = NoSend
    /\ heap' = Collect(ErrorUpdater(heap, messages), messages, sessions, snd')
    /\ UNCHANGED <<messages, sessions, currentSessionId, inputValue, sendCount>>
    /\ authIdle /\ mdIdle

\* the 20 ms timer fires and the loop has another word
streamNext ==
    /\ pc = "delay"
    /\ snd.i < Len(snd.words)
    /\ RevealWord(snd)
    /\ UNCHANGED <<messages, sessions, currentSessionId, inputValue, loading,
                   sendCount>>
    /\ authIdle /\ mdIdle

\* prev.map(s => s.id === currentSessionId ? {...s, messages: [...]} : s)
UpdateSession(ss, sessionId, msgs) ==
    [k \in 1..Len(ss) |->
        IF ss[k].id = sessionId THEN [ss[k] EXCEPT !.messages = msgs] ELSE ss[k]]

\* a save condition that forgets the user and the token
SavesChatAnyUser(s) == s.isNewChat

\* whether sendMessage goes on to generate a title and save the chat
SavesChat(s) ==
    IF variant = "local" THEN s.isNewChat
    ELSE s.user # "null" /\ s.token # "null" /\ s.isNewChat

\* the 20 ms timer fires after the last word: the final update, then either the
\* title request is issued or the existing session is updated and the send ends
streamEnd ==
    /\ pc = "delay"
    /\ snd.i = Len(snd.words)
    /\ IF SavesChat(snd)
       THEN /\ heap' = FinalUpdater(heap, messages)
            /\ pc' = "title"
            /\ UNCHANGED <<sessions, loading, snd>>
       ELSE /\ loading' = FALSE
            /\ pc' = "idle"
            /\ snd' = NoSend
            /\ IF variant = "local"
               THEN LET final == NewRef(heap)
                    IN /\ sessions' = UpdateSession(sessions, snd.currentSessionId,
                                                    Append(snd.newMessages, final))
                       /\ heap' = Collect(FinalUpdater(heap, messages)
                                              @@ (final :> AssistantFinal(snd.fullContent)),
                                          messages, sessions', snd')
               ELSE /\ UNCHANGED sessions
                    /\ heap' = Collect(FinalUpdater(heap, messages),
                                       messages, sessions, snd')
    /\ UNCHANGED <<messages, currentSessionId, inputValue, sendCount>>
    /\ authIdle /\ mdIdle

\* generateChatTitle settles (it catches its own failure); the first App
\* stores the new session and ends the send
titleSettled(ok) ==
    /\ pc = "title"
    /\ variant = "local"
    /\ LET title == IF ok THEN GeneratedTitle
                    ELSE Substring50(heap[snd.userMessage].content)
           u == NewRef(heap)
           a == NewRef(heap) + 1
           newSession == [id |-> sendCount, title |-> title, messages |-> <<u, a>>]
       IN /\ sessions' = <<newSession>> \o sessions
          /\ currentSessionId' = newSession.id
          /\ snd' = NoSend
          /\ heap' = Collect(heap @@ (u :> UserMessage(heap[snd.userMessage].content))
                                  @@ (a :> AssistantFinal(snd.fullContent)),
                             messages, sessions', snd')
    /\ loading' = FALSE
    /\ pc' = "idle"
    /\ UNCHANGED <<messages, inputValue, sendCount>>
    /\ authIdle /\ mdIdle

\* the two buttons with a copied indicator
Buttons == {"CopyButton", "CopyTableButton"}

\* localStorage.getItem of a key that is not set
NoItem == <<"null">>

\* the App before any user action
ChatInit ==
    /\ variant = "local"
    /\ heap = << >>
    /\ messages = <<>>
    /\ sessions = <<>>
    /\ currentSessionId = NewSession
    /\ inputValue = <<>>
    /\ loading = FALSE
    /\ user = "null"
    /\ token = "null"
    /\ localStorage = [authToken |-> "null", authUser |-> NoItem,
                       isGuest |-> "null"]
    /\ loginError = <<>>
    /\ loginPc = "idle"
    /\ historyPending = 0
    /\ saved = <<>>
    /\ loginCount = 0
    /\ pc = "idle"
    /\ snd = NoSend
    /\ sendCount = 0

\* MarkdownRenderer before it is given a text
MdIdleInit ==
    /\ lines = <<>>
    /\ i = 0
    /\ elements = <<>>

\* the components outside App before they are used
LangIdleInit == code = <<>> /\ specifiedLang = <<>> /\ detectedLang = <<>>
InlineIdleInit ==
    /\ inlineText = <<>>
    /\ parts = <<>>
    /\ lastIndex = 0
    /\ match = [index |-> -1, lastIndex |-> 0, alt |-> 0,
                c1 |-> <<"undefined">>, c2 |-> <<"undefined">>]
    /\ inlinePc = "done"
CopyMount ==
    /\ copied = [b \in Buttons |-> FALSE]
    /\ timers = [b \in Buttons |-> <<>>]
    /\ now = 0
    /\ lastCopy = [b \in Buttons |-> -1]
    /\ lastWrite = [b \in Buttons |-> "none"]
    /\ overlapped = [b \in Buttons |-> FALSE]
CopyInit == CopyMount /\ clipboard = "available"
ProviderIdleInit == isGuest = FALSE /\ authPending = {}

Init ==
    /\ ChatInit
    /\ MdIdleInit
    /\ LangIdleInit /\ InlineIdleInit /\ CopyInit /\ ProviderIdleInit

Next ==
    \/ \E text \in InputTexts : TypeInput(text)
    \/ handlePromptClick
    \/ handleNewChat
    \/ \E sessionId \in SessionIds : handleSelectSession(sessionId)
    \/ sendMessage
    \/ \E fullContent \in Responses : chatResponse(fullContent)
    \/ chatError
    \/ streamNext
    \/ streamEnd
    \/ \E ok \in BOOLEAN : titleSettled(ok)

Spec == Init /\ [][Next]_vars

\* the App with no navigation during a send: the user types and sends, and
\* the replies are longer
NextStream ==
    \/ \E text \in InputTexts : TypeInput(text)
    \/ handlePromptClick
    \/ sendMessage
    \/ \E fullContent \in LongResponses : chatResponse(fullContent)
    \/ chatError
    \/ streamNext
    \/ streamEnd
    \/ \E ok \in BOOLEAN : titleSettled(ok)

SpecStream == Init /\ [][NextStream]_vars

----------------------------------------------------------------------------
(* The authenticated App: login, logout, guest mode, saving of chats *)

TheUser == "u1"                                  \* the account of the user

\* the user objects { id, email } a login can produce
Users == {"u1", "u2", "u3"}
UserId(u) == IF u = "u1" THEN "1" ELSE "2"
UserEmail(u) == IF u = "u3" THEN <<"b">> ELSE <<"a">>

\* JSON.stringify({ id, email }): {"id":1,"email":"a"}
JSONstringify(u) ==
    <<"{", "\"", "i", "d", "\"", ":", UserId(u), ",",
      "\"", "e", "m", "a", "i", "l", "\"", ":", "\"">> \o UserEmail(u) \o <<"\"", "}">>

\* JSON.parse of such a text: the object with the id and email it spells
JSONparse(json) ==
    CHOOSE u \in Users :
        /\ UserId(u) = json[7]
        /\ UserEmail(u) = SubSeq(json, 18, Len(json) - 2)
TokenOf(n) == <<"t0", "t1", "t2", "t3", "t4", "t5">>[n + 1]  \* the JWT of the n-th login
LoginFailed == <<"L">>                           \* the loginError text

\* a chat as the backend stores it: message values, not objects
StoredChat(id, title, tok, userText, reply) ==
    [id |-> id, title |-> title, token |-> tok,
     messages |-> <<[role |-> "user", content |-> userText],
                    [role |-> "assistant", content |-> reply]>>]

\* the objects the parsed response of /chats/history consists of: the
\* messages of the k-th chat get the references base + 2k - 1, base + 2k
HistoryHeap(base, chats) ==
    [o \in (base + 1)..(base + 2 * Len(chats)) |->
        LET k == (o - base + 1) \div 2
            m == chats[k].messages[IF (o - base) % 2 = 1 THEN 1 ELSE 2]
        IN [role |-> m.role, content |-> m.content, isStreaming |-> "absent"]]

HistorySessions(base, chats) ==
    [k \in 1..Len(chats) |->
        [id |-> chats[k].id, title |-> chats[k].title,
         messages |-> <<base + 2 * k - 1, base + 2 * k>>]]

\* handleLogin up to the await of /auth/login (the form of the !user layout)
handleLogin ==
    /\ variant = "auth"
    /\ user = "null"
    /\ loginPc = "idle"
    /\ loginCount < MaxLogins
    /\ loginError' = <<>>
    /\ loginPc' = "request"
    /\ UNCHANGED <<variant, heap, messages, sessions, currentSessionId,
                   inputValue, loading, user, token, localStorage,
                   historyPending, saved, loginCount, pc, snd, sendCount>>
    /\ mdIdle

\* /auth/login resolves: token and user are stored and loadChatHistory starts
loginOk ==
    /\ loginPc = "request"
    /\ loginCount' = loginCount + 1
    /\ token' = TokenOf(loginCount')
    /\ user' = TheUser
    /\ localStorage' = [localStorage EXCEPT !.authToken = token',
                                             !.authUser = JSONstringify(TheUser)]
    /\ historyPending' = historyPending + 1
    /\ loginPc' = "idle"
    /\ UNCHANGED <<variant, heap, messages, sessions, currentSessionId,
                   inputValue, loading, loginError, saved, pc, snd, sendCount>>
    /\ mdIdle

\* /auth/login rejects
loginFail ==
    /\ loginPc = "request"
    /\ loginError' = LoginFailed
    /\ loginPc' = "idle"
    /\ UNCHANGED <<variant, heap, messages, sessions, currentSessionId,
                   inputValue, loading, user, token, localStorage,
                   historyPending, saved, loginCount, pc, snd, sendCount>>
    /\ mdIdle

\* /chats/history resolves: setSessions(response.data)
historyLoaded ==
    /\ historyPending > 0
    /\ historyPending' = historyPending - 1
    /\ sessions' = HistorySessions(NewRef(heap) - 1, saved)
    /\ heap' = Collect(heap @@ HistoryHeap(NewRef(heap) - 1, saved),
                       messages, sessions', snd)
    /\ UNCHANGED <<variant, messages, currentSessionId, inputValue, loading,
                   user, token, localStorage, loginError, loginPc, saved,
                   loginCount, pc, snd, sendCount>>
    /\ mdIdle

\* /chats/history rejects: setSessions([])
historyFailed ==
    /\ historyPending > 0
    /\ historyPending' = historyPending - 1
    /\ sessions' = <<>>
    /\ heap' = Collect(heap, messages, sessions', snd)
    /\ UNCHANGED <<variant, messages, currentSessionId, inputValue, loading,
                   user, token, localStorage, loginError, loginPc, saved,
                   loginCount, pc, snd, sendCount>>
    /\ mdIdle

\* a logout that forgets the stored user
RemoveTokenOnly(store) == [store EXCEPT !.authToken = "null"]

\* localStorage.removeItem('authToken'); localStorage.removeItem('authUser')
RemoveAuthItems(store) == [store EXCEPT !.authToken = "null", !.authUser = NoItem]

\* handleLogout (the sidebar of the logged-in layout)
handleLogout ==
    /\ variant = "auth"
    /\ user # "null"
    /\ user' = "null"
    /\ token' = "null"
    /\ sessions' = <<>>
    /\ messages' = <<>>
    /\ currentSessionId' = NewSession
    /\ localStorage' = RemoveAuthItems(localStorage)
    /\ heap' = Collect(heap, messages', sessions', snd)
    /\ UNCHANGED <<variant, inputValue, loading, loginError, loginPc,
                   historyPending, saved, loginCount, pc, snd, sendCount>>
    /\ mdIdle

\* the Guest Mode button of the !user layout
guestMode ==
    /\ variant = "auth"
    /\ user = "null"
    /\ user' = "null"
    /\ token' = "null"
    /\ sessions' = <<>>
    /\ currentSessionId' = NewSession
    /\ messages' = <<>>
    /\ heap' = Collect(heap, messages', sessions', snd)
    /\ UNCHANGED <<variant, inputValue, loading, localStorage, loginError,
                   loginPc, historyPending, saved, loginCount, pc, snd,
                   sendCount>>
    /\ mdIdle

\* the sidebar of the !user layout is given no sessions
selectSessionAuth(sessionId) ==
    /\ user # "null"
    /\ handleSelectSession(sessionId)

\* generateChatTitle settles in the authenticated App: /chats/save is posted
titleSettledAuth(ok) ==
    /\ pc = "title"
    /\ variant = "auth"
    /\ snd' = [snd EXCEPT !.title =
                   IF ok THEN GeneratedTitle
                   ELSE Substring50(heap[snd.userMessage].content)]
    /\ pc' = "save"
    /\ UNCHANGED <<heap, messages, sessions, currentSessionId, inputValue,
                   loading, sendCount>>
    /\ authIdle /\ mdIdle

\* /chats/save resolves: the backend has stored the chat and returns its id
saveOk ==
    /\ pc = "save"
    /\ LET id == Len(saved) + 1
           u == NewRef(heap)
           a == NewRef(heap) + 1
           newSession == [id |-> id, title |-> snd.title, messages |-> <<u, a>>]
       IN /\ saved' = Append(saved,
                             StoredChat(id, snd.title, snd.token,
                                        heap[snd.userMessage].content,
                                        snd.fullContent))
          /\ sessions' = <<newSession>> \o sessions
          /\ currentSessionId' = id
          /\ snd' = NoSend
          /\ heap' = Collect(heap @@ (u :> UserMessage(heap[snd.userMessage].content))
                                  @@ (a :> AssistantFinal(snd.fullContent)),
                             messages, sessions', snd')
    /\ loading' = FALSE
    /\ pc' = "idle"
    /\ UNCHANGED <<variant, messages, inputValue, user, token, localStorage,
                   loginError, loginPc, historyPending, loginCount, sendCount>>
    /\ mdIdle

\* a rejected save that leaves the send without its finally block
saveFailNoFinally ==
    /\ pc = "save"
    /\ pc' = "idle"
    /\ snd' = NoSend
    /\ heap' = Collect(heap, messages, sessions, snd')
    /\ UNCHANGED <<messages, sessions, currentSessionId, inputValue, sendCount,
                   loading>>
    /\ authIdle /\ mdIdle

\* /chats/save rejects: the inner catch logs, then finally
saveFail ==
    /\ pc = "save"
    /\ loading' = FALSE
    /\ pc' = "idle"
    /\ snd' = NoSend
    /\ heap' = Collect(heap, messages, sessions, snd')
    /\ UNCHANGED <<messages, sessions, currentSessionId, inputValue, sendCount>>
    /\ authIdle /\ mdIdle

\* the state after the mount effect: a token and user left in localStorage
\* by an earlier visit are restored and the history is requested
InitAuth ==
    /\ variant = "auth"
    /\ heap = << >>
    /\ messages = <<>>
    /\ sessions = <<>>
    /\ currentSessionId = NewSession
    /\ inputValue = <<>>
    /\ loading = FALSE
    /\ loginError = <<>>
    /\ loginPc = "idle"
    /\ loginCount = 0
    /\ pc = "idle"
    /\ snd = NoSend
    /\ sendCount = 0
    /\ MdIdleInit
    /\ LangIdleInit /\ InlineIdleInit /\ CopyInit /\ ProviderIdleInit
    /\ \/ /\ localStorage = [authToken |-> "null", authUser |-> NoItem,
                                isGuest |-> "null"]
          /\ user = "null"
          /\ token = "null"
          /\ historyPending = 0
          /\ saved = <<>>
       \/ /\ localStorage = [authToken |-> TokenOf(0),
                                authUser |-> JSONstringify(TheUser),
                                isGuest |-> "null"]
          /\ user = JSONparse(localStorage.authUser)
          /\ token = TokenOf(0)
          /\ historyPending = 1
          /\ saved = <<StoredChat(1, <<"q">>, TokenOf(0), <<"q">>, <<"a">>)>>

NextAuth ==
    \/ \E text \in InputTexts : TypeInput(text)
    \/ handlePromptClick
    \/ handleNewChat
    \/ \E sessionId \in SessionIds : selectSessionAuth(sessionId)
    \/ sendMessage
    \/ \E fullContent \in Responses : chatResponse(fullContent)
    \/ chatError
    \/ streamNext
    \/ streamEnd
    \/ \E ok \in BOOLEAN : titleSettledAuth(ok)
    \/ saveOk
    \/ saveFail
    \/ handleLogin
    \/ loginOk
    \/ loginFail
    \/ historyLoaded
    \/ historyFailed
    \/ handleLogout
    \/ guestMode

SpecAuth == InitAuth /\ [][NextAuth]_vars

----------------------------------------------------------------------------
(* Claims about the streaming of sendMessage *)

\* the number of space characters of s
Spaces(s) == Cardinality({k \in 1..Len(s) : s[k] = " "})

\* s up to, and without, its k-th space character; all of s when it has fewer
UpToSpace(s, k) ==
    IF Spaces(s) < k THEN s
    ELSE LET p == CHOOSE q \in 1..Len(s) :
                      s[q] = " " /\ Spaces(SubSeq(s, 1, q)) = k
         IN SubSeq(s, 1, p - 1)

\* what the k-th write of the loop must leave in the placeholder
RevealedAt(o, k) ==
    /\ heap[o].content = UpToSpace(snd.fullContent, k)
    /\ heap[o].isStreaming =
           (IF k < Spaces(snd.fullContent) + 1 THEN "true" ELSE "false")

C1_State ==
    pc = "delay" =>
        /\ snd.i \in 1..(Spaces(snd.fullContent) + 1)
        /\ Len(messages) > 0
        /\ messages[Len(messages)] = snd.assistantMessage
        /\ RevealedAt(snd.assistantMessage, snd.i)

C1_Step ==
    /\ (pc = "request" /\ pc' = "delay") => snd'.i = 1
    /\ (pc = "delay" /\ pc' = "delay") =>
           (snd'.i = snd.i + 1 /\ snd'.fullContent = snd.fullContent)
    /\ (pc = "delay" /\ pc' # "delay") =>
           /\ snd.i = Spaces(snd.fullContent) + 1
           /\ heap'[snd.assistantMessage].content = snd.fullContent
           /\ heap'[snd.assistantMessage].isStreaming = "false"

\* C1: with no user action interleaved, a reply of n space-separated words is
\* revealed in exactly n successive writes to the last assistant message: the
\* k-th content is the first k words joined by single spaces, isStreaming is
\* true for k < n and false for k = n, and nothing changes after the n-th; the
\* empty reply gives the single state '' with isStreaming false.
C1_StreamingSequence == []C1_State /\ [][C1_Step]_vars

C1_Witness ==
    /\ pc = "delay"
    /\ snd.fullContent = <<"a", " ", "a">>
    /\ snd.i = 2
    /\ heap[snd.assistantMessage].content = <<"a", " ", "a">>
    /\ heap[snd.assistantMessage].isStreaming = "false"

\* C2: a message whose isStreaming is false or absent is never modified
\* again, in the displayed transcript or in a stored session, under every
\* interleaving of the streaming steps with handleNewChat and
\* handleSelectSession.
C2_FinishedMessageImmutable ==
    [][\A o \in DOMAIN heap \cap DOMAIN heap' :
          heap[o].isStreaming # "true" => heap'[o] = heap[o]]_vars

\* C3: every streaming step of a send writes only to the assistant
\* placeholder that this send appended; once the transcript has been
\* replaced, the remaining steps of the send modify no message.
C3_WritesOnlyOwnPlaceholder ==
    [][\A o \in DOMAIN heap \cap DOMAIN heap' :
          heap'[o] # heap[o] => o = snd.assistantMessage]_vars

\* C4: from the moment a message is sent until the first word of the reply is
\* revealed (loading is true and the placeholder is still empty), the view
\* displays the typing placeholder.
C4_TypingWhileAwaiting ==
    (/\ loading
     /\ pc = "request"
     /\ Len(messages) > 0
     /\ messages[Len(messages)] = snd.assistantMessage
     /\ heap[snd.assistantMessage].content = <<>>) => TypingIndicator

----------------------------------------------------------------------------
(* MarkdownRenderer: the block pass *)

Digits == {"0", "1", "2", "3", "4", "5", "6", "7", "8", "9"}
Backquote == "BQ"        \* the backquote character, which a TLA+ string cannot hold
Fence == <<Backquote, Backquote, Backquote>>
Rule == <<"-", "-", "-">>

\* lines[from .. to-1], 0-based
Slice(ls, from, to) == SubSeq(ls, from + 1, to)

\* the number of leading characters of s that are in set
RECURSIVE Leading(_, _)
Leading(s, set) ==
    IF Len(s) > 0 /\ s[1] \in set THEN 1 + Leading(Tail(s), set) ELSE 0

\* !trimmed
IsBlank(line) == Trim(line) = <<>>

\* trimmed.match(/^(#{1,6})\s+(.+)$/)
HeadingMatch(trimmed) ==
    LET h == Leading(trimmed, {"#"})
    IN h \in 1..6 /\ Len(trimmed) > h /\ trimmed[h + 1] \in Whitespace

HeadingLevel(trimmed) == Leading(trimmed, {"#"})

HeadingContent(trimmed) ==
    TrimStart(SubSeq(trimmed, Leading(trimmed, {"#"}) + 1, Len(trimmed)))

\* lines[i].trim().includes('|')
IsTableLine(line) == Includes(Trim(line), "|")

\* lines[i].trim().startsWith(three backquotes)
IsFenceLine(line) == StartsWith(Trim(line), Fence)

NotFenceLine(line) == ~IsFenceLine(line)

\* a bullet test that forgets the horizontal rule
IsBulletLineNoRule(line) ==
    StartsWith(Trim(line), <<"-">>) \/ StartsWith(Trim(line), <<"*">>)

\* (trim().startsWith('-') || trim().startsWith('*')) && !trim().startsWith('---')
IsBulletLine(line) ==
    /\ StartsWith(Trim(line), <<"-">>) \/ StartsWith(Trim(line), <<"*">>)
    /\ ~StartsWith(Trim(line), Rule)

\* /^\d+\.\s+/.test(lines[i].trim())
IsNumberedLine(line) ==
    LET t == Trim(line)
        d == Leading(t, Digits)
    IN d >= 1 /\ Len(t) > d + 1 /\ t[d + 1] = "." /\ t[d + 2] \in Whitespace

\* lines[i].trim().startsWith('>')
IsQuoteLine(line) == StartsWith(Trim(line), <<">">>)

\* the condition of the while loop of a branch on one line
LoopTest(branch, line) ==
    CASE branch = "table" -> IsTableLine(line)
      [] branch = "code" -> NotFenceLine(line)
      [] branch = "list" -> IsBulletLine(line)
      [] branch = "numlist" -> IsNumberedLine(line)
      [] branch = "quote" -> IsQuoteLine(line)

\* while (i < lines.length && test(lines[i])) i++, entered with the cursor
\* cur: the cursor it ends with
ScanEnd(ls, cur, branch) ==
    IF cur >= Len(ls) THEN cur
    ELSE CHOOSE e \in cur..Len(ls) :
             /\ e = Len(ls) \/ ~LoopTest(branch, ls[e + 1])
             /\ \A j \in cur..(e - 1) : LoopTest(branch, ls[j + 1])

\* item.replace(/^[-*]\s*/, '').trim(), on the line as it is in the text
BulletItem(line) ==
    IF Len(line) > 0 /\ line[1] \in {"-", "*"}
    THEN Trim(TrimStart(Tail(line)))
    ELSE Trim(line)

\* item.replace(/^\d+\.\s+/, '').trim(), on the line as it is in the text
NumberedItem(line) ==
    LET d == Leading(line, Digits)
    IN IF d >= 1 /\ Len(line) > d + 1 /\ line[d + 1] = "."
          /\ line[d + 2] \in Whitespace
       THEN Trim(TrimStart(SubSeq(line, d + 2, Len(line))))
       ELSE Trim(line)

\* lines[i].trim().replace(/^>\s*/, '')
QuoteLine(line) == TrimStart(Tail(Trim(line)))

NonEmpty(cell) == cell # <<>>

\* line.split('|').map(cell => cell.trim()).filter(cell => cell)
Cells(line) ==
    SelectSeq([k \in 1..Len(SplitOn(line, "|")) |-> Trim(SplitOn(line, "|")[k])],
              NonEmpty)

\* renderTable returns null for fewer than two lines
RendersTable(tableLines) == Len(tableLines) >= 2

\* a block pushed to elements, with the range [from, to) of the lines it was
\* built from
Block(kind, from, to, level, lang, text, items) ==
    [kind |-> kind, from |-> from, to |-> to, level |-> level, lang |-> lang,
     text |-> text, items |-> items, table |-> FALSE, header |-> <<>>,
     rows |-> <<>>]

\* the table wrapper, with the table renderTable makes of tableLines
TableBlock(from, to, tableLines) ==
    [Block("table-wrapper", from, to, 0, <<>>, JoinWith(tableLines, "\n"),
           tableLines)
       EXCEPT !.table = RendersTable(tableLines),
              !.header = IF RendersTable(tableLines)
                         THEN Cells(tableLines[1]) ELSE <<>>,
              !.rows = IF RendersTable(tableLines)
                       THEN [k \in 1..(Len(tableLines) - 2) |-> Cells(tableLines[k + 2])]
                       ELSE <<>>]

\* a guard that compares with the size renderTable asks for
TablePushedFromTwo(tableLines) == Len(tableLines) >= 2

\* if (tableLines.length > 0)
TablePushed(tableLines) == Len(tableLines) > 0

\* a list branch that pushes and continues whatever it collected
ListPushedAlways(listLines) == TRUE

\* if (listLines.length > 0)
ListPushed(listLines) == Len(listLines) > 0

\* the closing fence is left for the next iteration
AfterFenceNoSkip(ls, close) == close

\* the cursor after the fenced lines: if (i < lines.length) i++
AfterFence(ls, close) == IF close < Len(ls) THEN close + 1 ELSE close

\* the result of one iteration: the cursor and the block pushed, if any
Pushed(cur, block) == [i |-> cur, push |-> <<block>>]

\* the branches after the table test, entered with the cursor cur and with
\* the line and trimmed that were read at the top of the iteration
ParseFromFence(ls, cur, top, line) ==
    LET trimmed == Trim(line)
        close == ScanEnd(ls, cur + 1, "code")
        codeLines == Slice(ls, cur + 1, close)
        listEnd == ScanEnd(ls, cur, "list")
        listLines == Slice(ls, cur, listEnd)
        numEnd == ScanEnd(ls, listEnd, "numlist")
        quoteEnd == ScanEnd(ls, listEnd, "quote")
    IN IF StartsWith(trimmed, Fence)
       THEN Pushed(AfterFence(ls, close),
                   Block("code", cur, AfterFence(ls, close), 0,
                         Trim(SubSeq(trimmed, 4, Len(trimmed))),
                         JoinWith(codeLines, "\n"), codeLines))
       ELSE IF ListPushed(listLines)
       THEN Pushed(listEnd,
                   Block("list", cur, listEnd, 0, <<>>, <<>>,
                         [k \in 1..Len(listLines) |-> BulletItem(listLines[k])]))
       ELSE IF IsNumberedLine(line)
       THEN Pushed(numEnd,
                   Block("numlist", listEnd, numEnd, 0, <<>>, <<>>,
                         [k \in 1..(numEnd - listEnd) |-> NumberedItem(ls[listEnd + k])]))
       ELSE IF StartsWith(trimmed, <<">">>)
       THEN Pushed(quoteEnd,
                   Block("quote", listEnd, quoteEnd, 0, <<>>, <<>>,
                         [k \in 1..(quoteEnd - listEnd) |-> QuoteLine(ls[listEnd + k])]))
       ELSE Pushed(listEnd + 1,
                   Block("paragraph", top, top + 1, 0, <<>>, trimmed, <<>>))

\* a dispatch that tries the list before the table
ParseBlockListFirst(ls, cur) ==
    LET line == ls[cur + 1]
        trimmed == Trim(line)
        tableEnd == ScanEnd(ls, cur, "table")
        tableLines == [k \in 1..(tableEnd - cur) |-> Trim(ls[cur + k])]
        listEnd == ScanEnd(ls, cur, "list")
    IN IF IsBlank(line)
       THEN Pushed(cur + 1, Block("empty", cur, cur + 1, 0, <<>>, <<>>, <<>>))
       ELSE IF HeadingMatch(trimmed)
       THEN Pushed(cur + 1,
                   Block("heading", cur, cur + 1, HeadingLevel(trimmed), <<>>,
                         HeadingContent(trimmed), <<>>))
       ELSE IF listEnd > cur
       THEN Pushed(listEnd,
                   Block("list", cur, listEnd, 0, <<>>, <<>>,
                         [k \in 1..(listEnd - cur) |-> BulletItem(ls[cur + k])]))
       ELSE IF Includes(trimmed, "|")
       THEN Pushed(tableEnd, TableBlock(cur, tableEnd, tableLines))
       ELSE ParseFromFence(ls, cur, cur, line)

\* one iteration of while (i < lines.length), entered with the cursor cur
ParseBlock(ls, cur) ==
    LET line == ls[cur + 1]
        trimmed == Trim(line)
        tableEnd == ScanEnd(ls, cur, "table")
        tableLines == [k \in 1..(tableEnd - cur) |-> Trim(ls[cur + k])]
    IN IF IsBlank(line)
       THEN Pushed(cur + 1, Block("empty", cur, cur + 1, 0, <<>>, <<>>, <<>>))
       ELSE IF HeadingMatch(trimmed)
       THEN Pushed(cur + 1,
                   Block("heading", cur, cur + 1, HeadingLevel(trimmed), <<>>,
                         HeadingContent(trimmed), <<>>))
       ELSE IF Includes(trimmed, "|") /\ TablePushed(tableLines)
       THEN Pushed(tableEnd, TableBlock(cur, tableEnd, tableLines))
       ELSE IF Includes(trimmed, "|")
       THEN ParseFromFence(ls, tableEnd, cur, line)
       ELSE ParseFromFence(ls, cur, cur, line)

\* one iteration of the block loop of MarkdownRenderer
renderBlock ==
    /\ i < Len(lines)
    /\ i' = ParseBlock(lines, i).i
    /\ elements' = elements \o ParseBlock(lines, i).push
    /\ UNCHANGED lines
    /\ UNCHANGED <<chatVars, langVars, inlineVars, copyVars, providerVars>>

\* lines a message can hold: blank lines, headings, table rows, fences,
\* bullets, a horizontal rule, numbered items, quotes and plain text
LineSet ==
    { <<>>, <<" ">>, <<"x">>,
      <<"#", " ", "x">>, <<"#", "x">>, <<"#", " ", "|">>,
      <<"x", "|", "x">>, <<"-", "|", "-">>,
      Fence, Fence \o <<"j">>,
      <<"-", " ", "x">>, <<"*", "x">>, <<" ", "-", "x">>, Rule,
      <<"1", ".", " ", "x">>, <<"1", ".", "x">>,
      <<">", " ", "x">> }

RECURSIVE LineSeqs(_)
\* the sequences of 1..n lines of LineSet
LineSeqs(n) ==
    IF n = 1 THEN {<<l>> : l \in LineSet}
    ELSE LineSeqs(n - 1) \cup {Append(ls, l) : ls \in LineSeqs(n - 1), l \in LineSet}

\* the texts MarkdownRenderer is given
Texts == {JoinWith(ls, "\n") : ls \in LineSeqs(MaxLines)}

InitMd ==
    /\ ChatInit
    /\ LangIdleInit /\ InlineIdleInit /\ CopyInit /\ ProviderIdleInit
    /\ \E text \in Texts : lines = SplitOn(text, "\n")
    /\ i = 0
    /\ elements = <<>>

NextMd == renderBlock

SpecMd == InitMd /\ [][NextMd]_vars

----------------------------------------------------------------------------
(* Claims about the block pass *)

LineAt(k) == lines[k + 1]

\* C5: the block pass assigns every line index to exactly one emitted block:
\* the ranges of successive blocks are in order, contiguous, non-overlapping
\* and cover all lines consumed so far, blank and fence lines included.
C5_LineCoverage ==
    /\ i <= Len(lines)
    /\ \A j \in 0..(i - 1) :
           Cardinality({k \in 1..Len(elements) :
                            elements[k].from <= j /\ j < elements[k].to}) = 1
    /\ \A k \in 1..Len(elements) :
           /\ elements[k].from < elements[k].to
           /\ elements[k].from = (IF k = 1 THEN 0 ELSE elements[k - 1].to)
           /\ elements[k].to <= i
    /\ Len(elements) > 0 => elements[Len(elements)].to = i

C5_Witness ==
    /\ lines = <<Fence, <<>>, Fence>>
    /\ i = Len(lines)
    /\ Len(elements) = 1
    /\ elements[1].from = 0 /\ elements[1].to = 3

\* the tests of the block pass in their priority order
KindOrder == <<"empty", "heading", "table-wrapper", "code", "list", "numlist",
               "quote", "paragraph">>

Matches(kind, line) ==
    CASE kind = "empty" -> Trim(line) = <<>>
      [] kind = "heading" -> HeadingMatch(Trim(line))
      [] kind = "table-wrapper" -> Includes(line, "|")
      [] kind = "code" -> StartsWith(Trim(line), Fence)
      [] kind = "list" -> /\ Len(Trim(line)) > 0
                          /\ Trim(line)[1] \in {"-", "*"}
                          /\ ~StartsWith(Trim(line), Rule)
      [] kind = "numlist" -> IsNumberedLine(line)
      [] kind = "quote" -> Len(Trim(line)) > 0 /\ Trim(line)[1] = ">"
      [] OTHER -> TRUE

FirstMatch(line) ==
    KindOrder[CHOOSE k \in 1..Len(KindOrder) :
                  /\ Matches(KindOrder[k], line)
                  /\ \A j \in 1..(k - 1) : ~Matches(KindOrder[j], line)]

\* C6: the block started at a cursor position is the one selected by the
\* first matching test in the order blank, heading, table, fenced code,
\* unordered list, ordered list, quote, paragraph; a line that contains '|'
\* and starts with '-' or '*' starts a table, never a list.
C6_DispatchOrder ==
    \A k \in 1..Len(elements) :
        LET line == LineAt(elements[k].from)
        IN /\ elements[k].kind = FirstMatch(line)
           /\ (Includes(line, "|") /\ Len(Trim(line)) > 0
               /\ Trim(line)[1] \in {"-", "*"})
                  => elements[k].kind = "table-wrapper"

C6_Witness ==
    \E k \in 1..Len(elements) :
        /\ LineAt(elements[k].from) = <<"-", "|", "-">>
        /\ elements[k].kind = "table-wrapper"

C7_State ==
    /\ Len(elements) <= i
    /\ i <= Len(lines)
    /\ \A k \in 1..Len(elements) :
           LET line == LineAt(elements[k].from)
           IN (\A j \in 1..(Len(KindOrder) - 1) : ~Matches(KindOrder[j], line))
                  => /\ elements[k].kind = "paragraph"
                     /\ elements[k].text = Trim(line)

C7_Step ==
    /\ i' > i
    /\ i' <= Len(lines)
    /\ Len(elements') = Len(elements) + 1

\* C7: parsing any text terminates without an error state: every iteration
\* of the block loop advances the cursor by at least one line and stays
\* within the text, and a non-blank line that matches no other rule is
\* emitted as a paragraph.
C7_Terminates == []C7_State /\ [][C7_Step]_vars

C7_Witness ==
    /\ i = Len(lines)
    /\ \E k \in 1..Len(elements) :
           /\ elements[k].kind = "paragraph"
           /\ elements[k].text = <<"#", "x">>

\* C8: when a line containing '|' is not immediately followed by another
\* line containing '|', the table branch adds no block for it: no table and
\* no table wrapper is emitted.
C8_NoBlockForLoneTableLine ==
    \A k \in 1..Len(elements) :
        elements[k].kind = "table-wrapper" => elements[k].to - elements[k].from >= 2

\* the first fence line after the line at index f, or the end of the text
ClosingFence(f) ==
    IF \E c \in (f + 1)..(Len(lines) - 1) : StartsWith(Trim(LineAt(c)), Fence)
    THEN CHOOSE c \in (f + 1)..(Len(lines) - 1) :
             /\ StartsWith(Trim(LineAt(c)), Fence)
             /\ \A j \in (f + 1)..(c - 1) : ~StartsWith(Trim(LineAt(j)), Fence)
    ELSE Len(lines)

\* C9: after an opening fence line, every following line up to the next line
\* whose trimmed text starts with three backquotes (or up to the end of the
\* text) becomes, unchanged and in order, the content of one code block and
\* of no other block; the cursor ends just past the closing fence when there
\* is one and at the end of the text otherwise.
C9_FencedCode ==
    \A k \in 1..Len(elements) :
        elements[k].kind = "code" =>
            LET f == elements[k].from
                c == ClosingFence(f)
            IN /\ StartsWith(Trim(LineAt(f)), Fence)
               /\ elements[k].items = [j \in 1..(c - f - 1) |-> LineAt(f + j)]
               /\ elements[k].text = JoinWith(elements[k].items, "\n")
               /\ elements[k].to = (IF c < Len(lines) THEN c + 1 ELSE Len(lines))
               /\ k < Len(elements) => elements[k + 1].from = elements[k].to
               /\ k = Len(elements) => i = elements[k].to

C9_Witness ==
    /\ lines = <<Fence \o <<"j">>, <<"#", " ", "x">>, Fence>>
    /\ i = 3
    /\ Len(elements) = 1
    /\ elements[1].kind = "code"
    /\ elements[1].items = << <<"#", " ", "x">> >>

\* the bullet test of the claim
StartsBullet(line) ==
    /\ Len(Trim(line)) > 0
    /\ Trim(line)[1] \in {"-", "*"}
    /\ ~(Len(Trim(line)) >= 3 /\ SubSeq(Trim(line), 1, 3) = <<"-", "-", "-">>)

\* the end of the maximal run of bullet lines that starts at index f
RunEnd(f) ==
    CHOOSE e \in f..Len(lines) :
        /\ \A j \in f..(e - 1) : StartsBullet(LineAt(j))
        /\ e < Len(lines) => ~StartsBullet(LineAt(e))

\* C10: a maximal run of k >= 1 consecutive bullet lines (trimmed text starts
\* with '-' or '*' and not with '---'), reached at a cursor position where no
\* higher-priority rule matches, yields exactly one list block with k items
\* in input order, and a line starting with '---' ends the run.
C10_ListRun ==
    \A k \in 1..Len(elements) :
        LET f == elements[k].from
        IN (/\ StartsBullet(LineAt(f))
            /\ ~Includes(LineAt(f), "|"))
              => /\ elements[k].kind = "list"
                 /\ elements[k].to = RunEnd(f)
                 /\ Len(elements[k].items) = RunEnd(f) - f
                 /\ \A j \in 1..Len(elements[k].items) :
                        elements[k].items[j] = BulletItem(LineAt(f + j - 1))
                 /\ k < Len(elements) => elements[k + 1].from = RunEnd(f)
                 /\ \A e \in f..(elements[k].to - 1) :
                        ~StartsWith(Trim(LineAt(e)), Rule)

C10_Witness ==
    /\ lines = << <<"-", " ", "x">>, <<"*", "x">>, Rule >>
    /\ i = 3
    /\ Len(elements) = 2
    /\ elements[1].kind = "list"
    /\ Len(elements[1].items) = 2
    /\ elements[2].kind = "paragraph"

\* the trimmed line without its bullet marker and the whitespace after it
WithoutBullet(line) == Trim(Tail(Trim(line)))

\* the trimmed line without its numeric prefix and the whitespace after it
WithoutNumber(line) ==
    Trim(SubSeq(Trim(line), Leading(Trim(line), Digits) + 2, Len(Trim(line))))

\* C21: for every line consumed into a list or ordered-list block, lines
\* with whitespace before the marker included, the item text handed to the
\* inline tokenizer is the line without its bullet marker (or numeric prefix)
\* and the whitespace after it: the marker never remains in the item text.
C21_MarkerStripped ==
    \A k \in 1..Len(elements) :
        /\ elements[k].kind = "list" =>
               \A j \in 1..Len(elements[k].items) :
                   elements[k].items[j] =
                       WithoutBullet(LineAt(elements[k].from + j - 1))
        /\ elements[k].kind = "numlist" =>
               \A j \in 1..Len(elements[k].items) :
                   elements[k].items[j] =
                       WithoutNumber(LineAt(elements[k].from + j - 1))

----------------------------------------------------------------------------
(* ChatWindow: detectLanguage *)

UpperCase == <<"A", "B", "C", "D", "E", "F", "G", "H", "I", "J", "K", "L", "M",
               "N", "O", "P", "Q", "R", "S", "T", "U", "V", "W", "X", "Y", "Z">>
LowerCase == <<"a", "b", "c", "d", "e", "f", "g", "h", "i", "j", "k", "l", "m",
               "n", "o", "p", "q", "r", "s", "t", "u", "v", "w", "x", "y", "z">>

\* the lower-case form of one character
ToLowerChar(c) ==
    IF \E k \in 1..26 : UpperCase[k] = c
    THEN LowerCase[CHOOSE k \in 1..26 : UpperCase[k] = c]
    ELSE c

\* String.prototype.toLowerCase()
ToLowerCase(s) == [k \in 1..Len(s) |-> ToLowerChar(s[k])]

\* [a-zA-Z]
Letters == {UpperCase[k] : k \in 1..26} \cup {LowerCase[k] : k \in 1..26}

\* the characters after which ^ matches under the m flag
LineTerminators == {"\n", "\r"}

\* the table patterns, in the order of its keys.  A pattern is ^(w1|w2|...)
\* with the flag m or i; json adds the alternative \[ that is not anchored
\* and xml the alternative <[a-zA-Z]
Patterns == <<    [lang |-> <<"p", "y", "t", "h", "o", "n">>, flag |-> "m",
     words |-> {<<"i", "m", "p", "o", "r", "t">>,
          <<"f", "r", "o", "m">>,
          <<"d", "e", "f">>,
          <<"c", "l", "a", "s", "s">>,
          <<"i", "f", " ", "_", "_", "n", "a", "m", "e", "_", "_">>,
          <<"p", "r", "i", "n", "t">>},
     anywhere |-> {}, beforeLetter |-> {}],
    [lang |-> <<"j", "a", "v", "a", "s", "c", "r", "i", "p", "t">>, flag |-> "m",
     words |-> {<<"f", "u", "n", "c", "t", "i", "o", "n">>,
          <<"c", "o", "n", "s", "t">>,
          <<"l", "e", "t">>,
          <<"v", "a", "r">>,
          <<"a", "s", "y", "n", "c">>,
          <<"a", "w", "a", "i", "t">>,
          <<"c", "o", "n", "s", "o", "l", "e", ".", "l", "o", "g">>},
     anywhere |-> {}, beforeLetter |-> {}],
    [lang |-> <<"t", "y", "p", "e", "s", "c", "r", "i", "p", "t">>, flag |-> "m",
     words |-> {<<"i", "n", "t", "e", "r", "f", "a", "c", "e">>,
          <<"t", "y", "p", "e">>,
          <<"e", "n", "u", "m">>,
          <<"a", "b", "s", "t", "r", "a", "c", "t">>,
          <<"d", "e", "c", "l", "a", "r", "e">>},
     anywhere |-> {}, beforeLetter |-> {}],
    [lang |-> <<"j", "a", "v", "a">>, flag |-> "m",
     words |-> {<<"p", "u", "b", "l", "i", "c">>,
          <<"p", "r", "i", "v", "a", "t", "e">>,
          <<"c", "l", "a", "s", "s">>,
          <<"i", "m", "p", "o", "r", "t", " ", "j", "a", "v", "a">>},
     anywhere |-> {}, beforeLetter |-> {}],
    [lang |-> <<"s", "q", "l">>, flag |-> "i",
     words |-> {<<"S", "E", "L", "E", "C", "T">>,
          <<"I", "N", "S", "E", "R", "T">>,
          <<"U", "P", "D", "A", "T", "E">>,
          <<"D", "E", "L", "E", "T", "E">>,
          <<"C", "R", "E", "A", "T", "E">>,
          <<"D", "R", "O", "P">>,
          <<"A", "L", "T", "E", "R">>},
     anywhere |-> {}, beforeLetter |-> {}],
    [lang |-> <<"p", "h", "p">>, flag |-> "m",
     words |-> {<<"<", "?", "p", "h", "p">>,
          <<"f", "u", "n", "c", "t", "i", "o", "n">>,
          <<"c", "l", "a", "s", "s">>,
          <<"$">>},
     anywhere |-> {}, beforeLetter |-> {}],
    [lang |-> <<"c", "p", "p">>, flag |-> "m",
     words |-> {<<"#", "i", "n", "c", "l", "u", "d", "e">>,
          <<"u", "s", "i", "n", "g", " ", "n", "a", "m", "e", "s", "p", "a", "c", "e">>,
          <<"i", "n", "t", " ", "m", "a", "i", "n">>,
          <<"v", "o", "i", "d">>},
     anywhere |-> {}, beforeLetter |-> {}],
    [lang |-> <<"c", "s", "h", "a", "r", "p">>, flag |-> "m",
     words |-> {<<"u", "s", "i", "n", "g">>,
          <<"n", "a", "m", "e", "s", "p", "a", "c", "e">>,
          <<"c", "l", "a", "s", "s">>,
          <<"p", "u", "b", "l", "i", "c">>,
          <<"s", "t", "a", "t", "i", "c">>},
     anywhere |-> {}, beforeLetter |-> {}],
    [lang |-> <<"g", "o">>, flag |-> "m",
     words |-> {<<"p", "a", "c", "k", "a", "g", "e">>,
          <<"i", "m", "p", "o", "r", "t">>,
          <<"f", "u", "n", "c">>,
          <<"t", "y", "p", "e">>},
     anywhere |-> {}, beforeLetter |-> {}],
    [lang |-> <<"r", "u", "s", "t">>, flag |-> "m",
     words |-> {<<"f", "n">>,
          <<"p", "u", "b">>,
          <<"i", "m", "p", "l">>,
          <<"u", "s", "e">>,
          <<"m", "o", "d">>,
          <<"s", "t", "r", "u", "c", "t">>},
     anywhere |-> {}, beforeLetter |-> {}],
    [lang |-> <<"r", "u", "b", "y">>, flag |-> "m",
     words |-> {<<"d", "e", "f">>,
          <<"c", "l", "a", "s", "s">>,
          <<"r", "e", "q", "u", "i", "r", "e">>,
          <<"p", "u", "t", "s">>},
     anywhere |-> {}, beforeLetter |-> {}],
    [lang |-> <<"b", "a", "s", "h">>, flag |-> "m",
     words |-> {<<"e", "c", "h", "o">>,
          <<"i", "f">>,
          <<"f", "o", "r">>,
          <<"w", "h", "i", "l", "e">>,
          <<"d", "o">>,
          <<"c", "a", "s", "e">>,
          <<"t", "e", "s", "t">>},
     anywhere |-> {}, beforeLetter |-> {}],
    [lang |-> <<"h", "t", "m", "l">>, flag |-> "i",
     words |-> {<<"<", "h", "t", "m", "l">>,
          <<"<", "!", "D", "O", "C", "T", "Y", "P", "E">>,
          <<"<", "h", "e", "a", "d">>,
          <<"<", "b", "o", "d", "y">>,
          <<"<", "d", "i", "v">>},
     anywhere |-> {}, beforeLetter |-> {}],
    [lang |-> <<"c", "s", "s">>, flag |-> "m",
     words |-> {<<"b", "o", "d", "y">>,
          <<".">>,
          <<"#", "i", "d">>,
          <<"@", "m", "e", "d", "i", "a">>},
     anywhere |-> {}, beforeLetter |-> {}],
    [lang |-> <<"j", "s", "o", "n">>, flag |-> "m",
     words |-> {<<"{">>},
     anywhere |-> {<<"[">>}, beforeLetter |-> {}],
    [lang |-> <<"x", "m", "l">>, flag |-> "m",
     words |-> {<<"<", "?", "x", "m", "l">>},
     anywhere |-> {}, beforeLetter |-> {<<"<">>}] >>

\* the positions (1-based) where ^ matches
LineStarts(s, flag) ==
    IF flag = "m"
    THEN {1} \cup {k + 1 : k \in {j \in 1..Len(s) : s[j] \in LineTerminators}}
    ELSE {1}

\* word w stands in s at position p, ignoring case under the i flag
WordAt(s, p, w, flag) ==
    /\ p + Len(w) - 1 <= Len(s)
    /\ \A j \in 1..Len(w) :
           IF flag = "i" THEN ToLowerChar(s[p + j - 1]) = ToLowerChar(w[j])
           ELSE s[p + j - 1] = w[j]

\* pattern.test(code)
PatternTest(pattern, s) ==
    \/ \E p \in LineStarts(s, pattern.flag) :
          \/ \E w \in pattern.words : WordAt(s, p, w, pattern.flag)
          \/ \E w \in pattern.beforeLetter :
                /\ WordAt(s, p, w, pattern.flag)
                /\ p + Len(w) <= Len(s)
                /\ s[p + Len(w)] \in Letters
    \/ \E p \in 1..Len(s) : \E w \in pattern.anywhere : WordAt(s, p, w, pattern.flag)

RECURSIVE FirstMatchingLang(_, _)
\* for (const [lang, pattern] of Object.entries(patterns)) ...; return 'xml'
FirstMatchingLang(s, k) ==
    IF k > Len(Patterns) THEN <<"x", "m", "l">>
    ELSE IF PatternTest(Patterns[k], s) THEN Patterns[k].lang
    ELSE FirstMatchingLang(s, k + 1)

\* a slip that returns the trimmed tag
DeclaredLangTrimmed(tag) == ToLowerCase(Trim(tag))

\* return specifiedLang.toLowerCase()
DeclaredLang(tag) == ToLowerCase(tag)

detectLanguage(s, tag) ==
    IF tag # <<>> /\ Trim(tag) # <<>>
    THEN DeclaredLang(tag)
    ELSE FirstMatchingLang(s, 1)

\* pieces of code texts: keywords of several patterns, in either case, at the
\* start of a line or not, brackets, tags and plain text
CodeFragments ==
    { <<"x">>,
      <<" ">>,
      <<"\n">>,
      <<"d", "e", "f">>,
      <<"c", "l", "a", "s", "s">>,
      <<"f", "u", "n", "c", "t", "i", "o", "n">>,
      <<"s", "e", "l", "e", "c", "t">>,
      <<"S", "E", "L", "E", "C", "T">>,
      <<"t", "y", "p", "e">>,
      <<"u", "s", "i", "n", "g">>,
      <<"p", "u", "b", "l", "i", "c">>,
      <<"$">>,
      <<"[">>,
      <<"{">>,
      <<"<", "a">>,
      <<"<", "1">>,
      <<"<", "D", "I", "V">>,
      <<".">>,
      <<"e", "c", "h", "o">>,
      <<"f", "n">>,
      <<"v", "o", "i", "d">>,
      <<"x", "[">> }

RECURSIVE CodesUpTo(_)
\* the code texts made of at most n fragments
CodesUpTo(n) ==
    IF n = 0 THEN {<<>>}
    ELSE CodesUpTo(n - 1) \cup {c \o f : c \in CodesUpTo(n - 1), f \in CodeFragments}

\* the language tags after the opening fence: none, blank, mixed case, padded
LangTags == {<<>>, <<" ">>, <<"P", "y">>, <<" ", "J", "S", " ">>}

\* const detectedLang = detectLanguage(codeContent, language)
callDetectLanguage ==
    /\ detectedLang = <<>>
    /\ detectedLang' = detectLanguage(code, specifiedLang)
    /\ UNCHANGED <<code, specifiedLang>>
    /\ UNCHANGED <<chatVars, mdVars, inlineVars, copyVars, providerVars>>

InitLang ==
    /\ ChatInit
    /\ MdIdleInit
    /\ InlineIdleInit /\ CopyInit /\ ProviderIdleInit
    /\ code \in CodesUpTo(MaxFrags)
    /\ specifiedLang \in LangTags
    /\ detectedLang = <<>>

NextLang == callDetectLanguage

SpecLang == InitLang /\ [][NextLang]_vars

----------------------------------------------------------------------------
(* Claims about detectLanguage *)

\* the table order the reference names
TableOrder ==
    << <<"p", "y", "t", "h", "o", "n">>,
       <<"j", "a", "v", "a", "s", "c", "r", "i", "p", "t">>,
       <<"t", "y", "p", "e", "s", "c", "r", "i", "p", "t">>,
       <<"j", "a", "v", "a">>,
       <<"s", "q", "l">>,
       <<"p", "h", "p">>,
       <<"c", "p", "p">>,
       <<"c", "s", "h", "a", "r", "p">>,
       <<"g", "o">>,
       <<"r", "u", "s", "t">>,
       <<"r", "u", "b", "y">>,
       <<"b", "a", "s", "h">>,
       <<"h", "t", "m", "l">>,
       <<"c", "s", "s">>,
       <<"j", "s", "o", "n">>,
       <<"x", "m", "l">> >>

\* the languages whose pattern matches the code
MatchingLangs(s) ==
    {Patterns[k].lang : k \in {j \in 1..Len(Patterns) : PatternTest(Patterns[j], s)}}

\* the reference: the lower-cased tag if it is not blank, else the first
\* language of the table order whose pattern matches, else xml
LangReference(s, tag) ==
    IF Trim(tag) # <<>> THEN ToLowerCase(tag)
    ELSE IF \E k \in 1..Len(TableOrder) : TableOrder[k] \in MatchingLangs(s)
    THEN TableOrder[CHOOSE k \in 1..Len(TableOrder) :
                        /\ TableOrder[k] \in MatchingLangs(s)
                        /\ \A j \in 1..(k - 1) : TableOrder[j] \notin MatchingLangs(s)]
    ELSE <<"x", "m", "l">>

\* C11: detectLanguage returns the lower-cased declared tag when the tag is
\* not blank, otherwise the first language in the table order python,
\* javascript, ..., json, xml whose pattern matches the code, and xml when
\* none matches
C11_DetectLanguageReference ==
    detectedLang # <<>> => detectedLang = LangReference(code, specifiedLang)

\* a blank tag and a code whose second line starts with a keyword of two
\* patterns: the earlier language of the table is returned
C11_Witness ==
    /\ specifiedLang = <<" ">>
    /\ code = <<"\n">> \o <<"f", "u", "n", "c", "t", "i", "o", "n">>
    /\ detectedLang = <<"j", "a", "v", "a", "s", "c", "r", "i", "p", "t">>

\* the positions of s at which a line after the first one starts
LaterLineStarts(s) == {p \in 2..Len(s) : s[p - 1] = "\n"}

\* the index in the table of the language detectLanguage returned
LangIndex(lang) ==
    CHOOSE k \in 1..Len(Patterns) : Patterns[k].lang = lang

\* C29: with no declared tag, every pattern of the table is tested against
\* the start of every line of the code, not only the first: for each of the
\* sixteen languages, a code with a later line that begins with a keyword of
\* that language is matched by the pattern of that language, so the language
\* returned is that one or one earlier in the table.
C29_EveryLineStart ==
    (detectedLang # <<>> /\ Trim(specifiedLang) = <<>>) =>
        \A k \in 1..Len(Patterns) :
            (\E p \in LaterLineStarts(code) : \E w \in Patterns[k].words :
                 WordAt(code, p, w, Patterns[k].flag))
                => /\ PatternTest(Patterns[k], code)
                   /\ LangIndex(detectedLang) <= k

----------------------------------------------------------------------------
(* ChatWindow: renderInlineMarkdown *)

\* a capture group that did not take part in the match
Undefined == <<"undefined">>

\* the result of regex.exec when nothing matches
NoMatch == [index |-> -1, lastIndex |-> 0, alt |-> 0, c1 |-> Undefined, c2 |-> Undefined]

\* no character of s[from..to] is a line terminator ("." does not match one)
DotRun(s, from, to) == \A k \in from..to : s[k] \notin {"\n", "\r"}

\* the lazy (.*?) followed by the literal w: the position of the first w at or
\* after from that a run of "." reaches, 0 if there is none
LazyClose(s, from, w) ==
    LET at == {q \in from..Len(s) : WordAt(s, q, w, "m")}
    IN IF at = {} THEN 0
       ELSE LET q == CHOOSE q \in at : \A r \in at : q <= r
            IN IF DotRun(s, from, q - 1) THEN q ELSE 0

\* the position of the first character c after p, 0 if there is none
NextChar(s, p, c) ==
    LET at == {q \in (p + 1)..Len(s) : s[q] = c}
    IN IF at = {} THEN 0 ELSE CHOOSE q \in at : \A r \in at : q <= r

\* open (.*?) close, matched at position p (1-based)
LazyPair(s, p, open, close, alt) ==
    IF WordAt(s, p, open, "m") /\ LazyClose(s, p + Len(open), close) # 0
    THEN LET q == LazyClose(s, p + Len(open), close)
         IN [index |-> p - 1, lastIndex |-> q + Len(close) - 1, alt |-> alt,
             c1 |-> SubSeq(s, p + Len(open), q - 1), c2 |-> Undefined]
    ELSE NoMatch

\* c ([^c]+) c, matched at position p
NegatedPair(s, p, c, alt) ==
    IF p <= Len(s) /\ s[p] = c /\ NextChar(s, p, c) > p + 1
    THEN [index |-> p - 1, lastIndex |-> NextChar(s, p, c), alt |-> alt,
          c1 |-> SubSeq(s, p + 1, NextChar(s, p, c) - 1), c2 |-> Undefined]
    ELSE NoMatch

\* \[(.*?)\]\((.*?)\), matched at position p: the first "](" that a run of
\* "." reaches and after which a run of "." reaches a ")"
LinkAt(s, p) ==
    LET mids == {q \in (p + 1)..Len(s) :
                    /\ WordAt(s, q, <<"]", "(">>, "m")
                    /\ DotRun(s, p + 1, q - 1)
                    /\ LazyClose(s, q + 2, <<")">>) # 0}
    IN IF p <= Len(s) /\ s[p] = "[" /\ mids # {}
       THEN LET q == CHOOSE q \in mids : \A r \in mids : q <= r
                e == LazyClose(s, q + 2, <<")">>)
            IN [index |-> p - 1, lastIndex |-> e, alt |-> 6,
                c1 |-> SubSeq(s, p + 1, q - 1), c2 |-> SubSeq(s, q + 2, e - 1)]
       ELSE NoMatch

\* the alternatives of the combined pattern, in its order, tried at p
Alternatives(s, p) ==
    << LazyPair(s, p, <<"*", "*">>, <<"*", "*">>, 1),
       LazyPair(s, p, <<"_", "_">>, <<"_", "_">>, 2),
       NegatedPair(s, p, "_", 3),
       LazyPair(s, p, <<"*">>, <<"*">>, 4),
       NegatedPair(s, p, Backquote, 5),
       LinkAt(s, p) >>

\* the match of the pattern at position p: its first alternative that matches
MatchAt(s, p) ==
    LET alts == Alternatives(s, p)
        ok == {k \in 1..Len(alts) : alts[k] # NoMatch}
    IN IF ok = {} THEN NoMatch
       ELSE alts[CHOOSE k \in ok : \A j \in ok : k <= j]

\* regex.exec(text) with the g flag: the match at the first position at or
\* after lastIndex where the pattern matches
Exec(s, last) ==
    LET at == {p \in (last + 1)..Len(s) : MatchAt(s, p) # NoMatch}
    IN IF at = {} THEN NoMatch
       ELSE MatchAt(s, CHOOSE p \in at : \A r \in at : p <= r)

\* match[k]
Group(m, k) ==
    IF k = m.alt THEN m.c1
    ELSE IF k = 7 /\ m.alt = 6 THEN m.c2
    ELSE Undefined

\* the truth value of match[k]: undefined and '' are falsy
Truthy(g) == g # Undefined /\ g # <<>>

TextNode(s) == [kind |-> "text", content |-> s, href |-> <<>>, key |-> -1]
Element(kind, m, content, href) ==
    [kind |-> kind, content |-> content, href |-> href, key |-> m.index]

\* the if-chain over the capture groups: the nodes pushed for the match
MatchNodes(m) ==
    IF Truthy(Group(m, 1)) THEN <<Element("strong", m, Group(m, 1), <<>>)>>
    ELSE IF Truthy(Group(m, 2)) THEN <<Element("strong", m, Group(m, 2), <<>>)>>
    ELSE IF Truthy(Group(m, 3)) THEN <<Element("em", m, Group(m, 3), <<>>)>>
    ELSE IF Truthy(Group(m, 4)) THEN <<Element("em", m, Group(m, 4), <<>>)>>
    ELSE IF Truthy(Group(m, 5)) THEN <<Element("code", m, Group(m, 5), <<>>)>>
    ELSE IF Truthy(Group(m, 6)) /\ Truthy(Group(m, 7))
         THEN <<Element("a", m, Group(m, 6), Group(m, 7))>>
    ELSE <<>>

\* text.substring(from, to), 0-based
Substring(s, from, to) == SubSeq(s, from + 1, to)

\* the loop test: match = regex.exec(text), compared with null
regexExec ==
    /\ inlinePc = "exec"
    /\ match' = Exec(inlineText, lastIndex)
    /\ inlinePc' = IF match' = NoMatch THEN "rest" ELSE "body"
    /\ UNCHANGED <<inlineText, parts, lastIndex>>
    /\ UNCHANGED <<chatVars, mdVars, langVars, copyVars, providerVars>>

\* the loop body: the text before the match, the node of the match, and
\* lastIndex = regex.lastIndex
inlineMatch ==
    /\ inlinePc = "body"
    /\ parts' = parts
                \o (IF match.index > lastIndex
                    THEN <<TextNode(Substring(inlineText, lastIndex, match.index))>>
                    ELSE <<>>)
                \o MatchNodes(match)
    /\ lastIndex' = match.lastIndex
    /\ inlinePc' = "exec"
    /\ UNCHANGED <<inlineText, match>>
    /\ UNCHANGED <<chatVars, mdVars, langVars, copyVars, providerVars>>

\* after the loop: the rest of the text is pushed and the function returns
\* parts, or [text] when parts is empty
inlineEnd ==
    /\ inlinePc = "rest"
    /\ LET final == parts \o (IF lastIndex < Len(inlineText)
                              THEN <<TextNode(Substring(inlineText, lastIndex,
                                                        Len(inlineText)))>>
                              ELSE <<>>)
       IN parts' = IF Len(final) > 0 THEN final ELSE <<TextNode(inlineText)>>
    /\ inlinePc' = "done"
    /\ UNCHANGED <<inlineText, lastIndex, match>>
    /\ UNCHANGED <<chatVars, mdVars, langVars, copyVars, providerVars>>

\* the characters of the lines given to renderInlineMarkdown
InlineAlphabet == {"*", "_", "x", "[", "]", "(", ")", Backquote}

\* longer lines: emphasis around words, a link, and the line of two emphases
InlineExamples ==
    { <<"*", "*", "x", "*", "*">>,
      <<"[", "x", "]", "(", "y", ")">>,
      <<"x", "*", "*", "*", "*", "x">>,
      <<"*", "*", "b", "o", "l", "d", "*", "*", " ", "a", "n", "d", " ", "*", "i", "t", "a", "l", "i", "c", "*">> }

InlineTexts == StringsUpTo(InlineAlphabet, MaxInlineLen) \cup InlineExamples

InitInline ==
    /\ ChatInit
    /\ MdIdleInit
    /\ LangIdleInit /\ CopyInit /\ ProviderIdleInit
    /\ inlineText \in InlineTexts
    /\ parts = <<>>
    /\ lastIndex = 0
    /\ match = NoMatch
    /\ inlinePc = "exec"

NextInline == regexExec \/ inlineMatch \/ inlineEnd

SpecInline == InitInline /\ [][NextInline]_vars

----------------------------------------------------------------------------
(* Claims about renderInlineMarkdown *)

TypedKinds == {"strong", "em", "code", "a"}

\* C12: every match of the combined scan adds exactly one typed span (bold,
\* italic, inline code or link) after the unchanged text before it, also
\* when the captured content of the match is empty
C12_EveryMatchOneSpan ==
    [][inlinePc = "body" /\ inlinePc' = "exec"
       => /\ Len(parts') = Len(parts) + 1
                           + (IF match.index > lastIndex THEN 1 ELSE 0)
          /\ parts'[Len(parts')].kind \in TypedKinds
          /\ parts'[Len(parts')].key = match.index
          /\ match.index > lastIndex
             => parts'[Len(parts') - 1] =
                    TextNode(Substring(inlineText, lastIndex, match.index))]_vars

\* both the double-asterisk and the single-asterisk pattern match at p
BoldAndItalicAt(s, p) ==
    /\ LazyPair(s, p, <<"*", "*">>, <<"*", "*">>, 1) # NoMatch
    /\ LazyPair(s, p, <<"*">>, <<"*">>, 4) # NoMatch

BoldItalicLine == <<"*", "*", "b", "o", "l", "d", "*", "*", " ", "a", "n", "d", " ", "*", "i", "t", "a", "l", "i", "c", "*">>

\* C13: where the bold and the italic pattern both match at the position of
\* a match, a bold span is emitted; the line of a bold x yields one bold
\* span, and the line with bold, the word and, and italic yields exactly
\* bold, text, italic
C13_BoldBeforeItalic ==
    /\ [](inlinePc = "done" /\ inlineText = <<"*", "*", "x", "*", "*">>
          => parts = <<[kind |-> "strong", content |-> <<"x">>, href |-> <<>>, key |-> 0]>>)
    /\ [](inlinePc = "done" /\ inlineText = BoldItalicLine
          => parts = <<[kind |-> "strong", content |-> <<"b", "o", "l", "d">>, href |-> <<>>, key |-> 0],
                       TextNode(<<" ", "a", "n", "d", " ">>),
                       [kind |-> "em", content |-> <<"i", "t", "a", "l", "i", "c">>, href |-> <<>>, key |-> 13]>>)
    /\ [][inlinePc = "body" /\ inlinePc' = "exec"
          /\ BoldAndItalicAt(inlineText, match.index + 1)
          => /\ parts' # <<>>
             /\ parts'[Len(parts')].kind = "strong"
             /\ parts'[Len(parts')].key = match.index]_vars

----------------------------------------------------------------------------
(* ChatWindow: CopyButton and CopyTableButton *)

CopyDelay == 2000       \* setTimeout(() => setCopied(false), 2000)

\* the amounts of time, in milliseconds, the clock advances by in one step
Advance == {500, 1500, 2000}

\* a variant in which a click cancels a pending timer and sets no new one
ScheduleCancelling(pending, at) ==
    IF pending # <<>> THEN <<>> ELSE <<at + CopyDelay>>

\* a variant that clears the pending timer before it sets the new one
ScheduleReplacing(pending, at) == <<at + CopyDelay>>

\* setTimeout(..., 2000) at time at: one more callback, the earlier ones stay
Schedule(pending, at) == Append(pending, at + CopyDelay)

\* the browsers the page runs in: navigator.clipboard is undefined in an
\* insecure context and in browsers without the Clipboard API
Clipboards == {"available", "missing"}

\* how the promise of navigator.clipboard.writeText settles
WriteOutcomes == {"resolved", "rejected"}

\* copyToClipboard(text): the promise settles as w, with nothing attached to
\* its rejection; reading writeText of undefined throws a TypeError
copyToClipboard(env, w) == IF env = "missing" THEN "TypeError" ELSE w

\* handleCopy of button b: copyToClipboard, setCopied(true), setTimeout.  An
\* exception of copyToClipboard leaves the handler before setCopied.
handleCopy(b, w) ==
    /\ Len(timers[b]) < MaxPending
    /\ lastWrite' = [lastWrite EXCEPT ![b] = copyToClipboard(clipboard, w)]
    /\ IF copyToClipboard(clipboard, w) = "TypeError"
       THEN UNCHANGED <<copied, timers, lastCopy, overlapped>>
       ELSE /\ copied' = [copied EXCEPT ![b] = TRUE]
            /\ timers' = [timers EXCEPT ![b] = Schedule(timers[b], now)]
            /\ lastCopy' = [lastCopy EXCEPT ![b] = now]
            /\ overlapped' = [overlapped EXCEPT ![b] = @ \/ timers[b] # <<>>]
    /\ UNCHANGED <<now, clipboard>>
    /\ UNCHANGED <<chatVars, mdVars, langVars, inlineVars, providerVars>>

\* the oldest pending callback of button b runs: setCopied(false)
timerFires(b) ==
    /\ timers[b] # <<>>
    /\ Head(timers[b]) <= now
    /\ copied' = [copied EXCEPT ![b] = FALSE]
    /\ timers' = [timers EXCEPT ![b] = Tail(timers[b])]
    /\ UNCHANGED <<now, lastCopy, clipboard, lastWrite, overlapped>>
    /\ UNCHANGED <<chatVars, mdVars, langVars, inlineVars, providerVars>>

\* time passes, not beyond the moment a pending callback is due
tick(d) ==
    /\ now + d <= MaxClock
    /\ \A b \in Buttons : timers[b] # <<>> => now + d <= Head(timers[b])
    /\ now' = now + d
    /\ UNCHANGED <<copied, timers, lastCopy, clipboard, lastWrite, overlapped>>
    /\ UNCHANGED <<chatVars, mdVars, langVars, inlineVars, providerVars>>

InitCopy ==
    /\ ChatInit
    /\ MdIdleInit
    /\ LangIdleInit /\ InlineIdleInit /\ ProviderIdleInit
    /\ CopyMount
    /\ clipboard \in Clipboards

NextCopy ==
    \/ \E b \in Buttons, w \in WriteOutcomes : handleCopy(b, w)
    \/ \E b \in Buttons : timerFires(b)
    \/ \E d \in Advance : tick(d)

SpecCopy == InitCopy /\ [][NextCopy]_vars

----------------------------------------------------------------------------
(* Claims about the copy buttons *)

\* C14: every copy trigger sets copied to true and schedules its own timer
\* for 2000 ms later, leaving the timers of earlier triggers pending; every
\* timer sets copied to false 2000 ms after the trigger that scheduled it,
\* whatever was triggered in between
C14_EveryTriggerOwnTimer ==
    /\ [](\A b \in Buttons :
            /\ \A k \in 1..Len(timers[b]) :
                  now <= timers[b][k] /\ timers[b][k] <= now + CopyDelay
            /\ timers[b] # <<>> => timers[b][Len(timers[b])] = lastCopy[b] + CopyDelay)
    /\ [][\A b \in Buttons :
            /\ (\/ lastWrite'[b] # lastWrite[b]
                \/ lastCopy'[b] # lastCopy[b]
                \/ Len(timers'[b]) > Len(timers[b]))
               => /\ copied'[b]
                  /\ timers'[b] = Append(timers[b], now + CopyDelay)
            /\ Len(timers'[b]) < Len(timers[b])
               => /\ ~copied'[b]
                  /\ now = Head(timers[b])
                  /\ timers'[b] = Tail(timers[b])]_vars

\* after two overlapping triggers the indicator is off 500 ms after the
\* second one, whose own timer is still pending
C14_Witness ==
    \E b \in Buttons :
        /\ ~copied[b]
        /\ lastCopy[b] >= 0
        /\ now - lastCopy[b] = 500
        /\ Len(timers[b]) = 1

----------------------------------------------------------------------------
(* Claims about sendMessage, sessions and authentication in App *)

\* C15: a sendMessage starts only when no other one is in progress: while a
\* send awaits its request, streams, or awaits the title, loading is true and
\* the form cannot be submitted, whatever the user does in between
C15_OneSendAtATime ==
    /\ [](pc # "idle" => loading)
    /\ [][sendCount' # sendCount => pc = "idle" /\ pc' = "request"]_vars

\* a send is streaming, the user has opened a new chat and clicked a prompt:
\* the input is not blank and only loading keeps the form from submitting
C15_Witness ==
    /\ pc = "delay"
    /\ loading
    /\ Trim(inputValue) # <<>>
    /\ messages = <<>>

\* C16: when the completion request fails, the placeholder of that send gets
\* the error string and isStreaming false (here required only while it is
\* still in the transcript), and nothing else is written: no other message
\* changes and no session is created or updated
C16_FailureOnlyMarksPlaceholder ==
    [][pc = "request" /\ pc' = "idle"
       => /\ snd.assistantMessage \in Range(messages)
             => /\ snd.assistantMessage \in DOMAIN heap'
                /\ heap'[snd.assistantMessage].content = ErrorText
                /\ heap'[snd.assistantMessage].isStreaming = "false"
          /\ \A o \in (DOMAIN heap \cap DOMAIN heap') \ {snd.assistantMessage} :
                heap'[o] = heap[o]
          /\ sessions' = sessions]_vars

\* C17: handleLogout leaves user and token null, sessions and messages
\* empty, currentSessionId 'new', and no authToken and authUser in
\* localStorage
C17_LogoutClears ==
    [][user # "null" /\ user' = "null"
       => /\ token' = "null"
          /\ sessions' = <<>>
          /\ messages' = <<>>
          /\ currentSessionId' = NewSession
          /\ localStorage'.authToken = "null"
          /\ localStorage'.authUser = NoItem]_vars

\* logged out after a chat was saved in addition to the restored one
C17_Witness ==
    /\ user = "null"
    /\ token = "null"
    /\ localStorage.authToken = "null"
    /\ sessions = <<>>
    /\ messages = <<>>
    /\ Len(saved) = 2

\* C18: in the authenticated App the title is generated and /chats/save is
\* posted for a send exactly when its completion succeeded and, when the
\* message was sent, user and token were set and currentSessionId was 'new';
\* a send posts at most one save
C18_SaveExactlyForNewChatOfUser ==
    /\ [](pc \in {"title", "save"}
          => snd.user # "null" /\ snd.token # "null" /\ snd.isNewChat)
    /\ [][/\ sendCount' # sendCount
             => /\ snd'.user = user
                /\ snd'.token = token
                /\ snd'.isNewChat = (currentSessionId = NewSession)
          /\ pc = "delay" /\ pc' # "delay"
             => (pc' = "title"
                   <=> snd.user # "null" /\ snd.token # "null" /\ snd.isNewChat)
          /\ pc' = "title" /\ pc # "title" => pc = "delay"
          /\ pc' = "save" /\ pc # "save" => pc = "title"
          /\ pc = "save" /\ pc' # "save" => pc' = "idle"
          /\ saved' # saved
             => /\ pc = "save"
                /\ Len(saved') = Len(saved) + 1
                /\ saved'[Len(saved')].token = snd.token]_vars

\* the save of a send is posted although the user has logged out meanwhile:
\* user and token were set when the message was sent
C18_Witness ==
    /\ pc = "save"
    /\ user = "null"
    /\ snd.user # "null"
    /\ snd.isNewChat

----------------------------------------------------------------------------
(* AuthProvider: login, signup, logout, loginAsGuest and the mount effect *)

\* a mount effect that looks at the token before the guest flag
AuthMountTokenFirst(store) ==
    IF store.authToken # "null" /\ store.authUser # NoItem /\ store.authUser # <<>>
    THEN [user |-> JSONparse(store.authUser), token |-> store.authToken,
          isGuest |-> FALSE]
    ELSE [user |-> "null", token |-> "null", isGuest |-> store.isGuest = "true"]

\* the state after useState(null), useState(null), useState(false) and the
\* mount effect that reads localStorage
AuthMount(store) ==
    IF store.isGuest = "true"
    THEN [user |-> "null", token |-> "null", isGuest |-> TRUE]
    ELSE IF store.authToken # "null" /\ store.authUser # NoItem /\ store.authUser # <<>>
    THEN [user |-> JSONparse(store.authUser), token |-> store.authToken,
          isGuest |-> FALSE]
    ELSE [user |-> "null", token |-> "null", isGuest |-> FALSE]

providerIdle ==
    UNCHANGED <<heap, messages, sessions, currentSessionId, inputValue, loading,
                loginError, loginPc, historyPending, saved, pc, snd, sendCount,
                variant, mdVars, langVars, inlineVars, copyVars>>

\* login(email, password) up to the await of fetch; u is the account the
\* email and the user_id of the response make up
login(u) ==
    /\ loginCount + Cardinality(authPending) <= MaxLogins + 1
    /\ [call |-> "login", user |-> u] \notin authPending
    /\ authPending' = authPending \cup {[call |-> "login", user |-> u]}
    /\ UNCHANGED <<user, token, isGuest, localStorage, loginCount>>
    /\ providerIdle

\* signup(email, password) up to the await of fetch
signup(u) ==
    /\ loginCount + Cardinality(authPending) <= MaxLogins + 1
    /\ [call |-> "signup", user |-> u] \notin authPending
    /\ authPending' = authPending \cup {[call |-> "signup", user |-> u]}
    /\ UNCHANGED <<user, token, isGuest, localStorage, loginCount>>
    /\ providerIdle

\* the response of call c is ok: login and signup continue alike
fetchOk(c) ==
    /\ c \in authPending
    /\ authPending' = authPending \ {c}
    /\ loginCount' = loginCount + 1
    /\ token' = TokenOf(loginCount')
    /\ user' = c.user
    /\ isGuest' = FALSE
    /\ localStorage' = [authToken |-> token',
                        authUser |-> JSONstringify(c.user),
                        isGuest |-> "null"]
    /\ providerIdle

\* the response of call c is not ok: login or signup throws
fetchFailed(c) ==
    /\ c \in authPending
    /\ authPending' = authPending \ {c}
    /\ UNCHANGED <<user, token, isGuest, localStorage, loginCount>>
    /\ providerIdle

logout ==
    /\ user' = "null"
    /\ token' = "null"
    /\ isGuest' = FALSE
    /\ localStorage' = [RemoveAuthItems(localStorage) EXCEPT !.isGuest = "null"]
    /\ UNCHANGED <<authPending, loginCount>>
    /\ providerIdle

loginAsGuest ==
    /\ user' = "null"
    /\ token' = "null"
    /\ isGuest' = TRUE
    /\ localStorage' = [localStorage EXCEPT !.isGuest = "true"]
    /\ UNCHANGED <<authPending, loginCount>>
    /\ providerIdle

\* the page is reloaded: AuthProvider mounts again over the same
\* localStorage, and the calls of the old page are gone
remount ==
    /\ user' = AuthMount(localStorage).user
    /\ token' = AuthMount(localStorage).token
    /\ isGuest' = AuthMount(localStorage).isGuest
    /\ authPending' = {}
    /\ UNCHANGED <<localStorage, loginCount>>
    /\ providerIdle

\* the first visit: nothing is stored
InitProvider ==
    /\ ChatInit
    /\ MdIdleInit
    /\ LangIdleInit /\ InlineIdleInit /\ CopyInit
    /\ isGuest = AuthMount(localStorage).isGuest
    /\ authPending = {}

NextProvider ==
    \/ \E u \in Users : login(u)
    \/ \E u \in Users : signup(u)
    \/ \E c \in authPending : fetchOk(c)
    \/ \E c \in authPending : fetchFailed(c)
    \/ logout
    \/ loginAsGuest
    \/ remount

SpecProvider == InitProvider /\ [][NextProvider]_vars

----------------------------------------------------------------------------
(* Claims about AuthProvider *)

\* C19: at any moment a remount of AuthProvider restores the auth
\* state in effect: the same user and token, or guest mode, or neither
C19_RemountRestores ==
    AuthMount(localStorage) = [user |-> user, token |-> token, isGuest |-> isGuest]

\* guest mode entered after a login: the token and user of the login are
\* still stored, and a remount must restore guest mode, not the login
C19_Witness ==
    /\ isGuest
    /\ user = "null"
    /\ localStorage.authToken # "null"
    /\ localStorage.isGuest = "true"
    /\ authPending = {}

----------------------------------------------------------------------------
(* Claims about the words of the streaming loop *)

\* C20 as stated: the reply is split on whitespace into non-empty words, so
\* no revealed text ends in whitespace and no two successive revealed texts
\* differ only by whitespace
C20_WordsWithoutWhitespace ==
    /\ [](pc = "delay" /\ snd.currentText # <<>>
          => snd.currentText[Len(snd.currentText)] \notin Whitespace)
    /\ [][pc = "delay" /\ pc' = "delay"
          => \E k \in (Len(snd.currentText) + 1)..Len(snd'.currentText) :
                 snd'.currentText[k] \notin Whitespace]_vars

\* C20 amended: the reply is split at every single space character; each
\* increment appends one space and one segment without a space (the first
\* increment only the segment), where a segment can be empty or contain
\* newlines; every revealed text is a prefix of the reply that ends at a
\* space of the reply or at its end, and the last one is the reply
C20_SegmentsOfSingleSpaces ==
    /\ [](pc = "delay"
          => /\ Len(snd.currentText) <= Len(snd.fullContent)
             /\ snd.currentText = SubSeq(snd.fullContent, 1, Len(snd.currentText))
             /\ \/ Len(snd.currentText) = Len(snd.fullContent)
                \/ snd.fullContent[Len(snd.currentText) + 1] = " "
             /\ Spaces(snd.currentText) = snd.i - 1
             /\ snd.i = Len(snd.words) => snd.currentText = snd.fullContent)
    /\ [][pc = "delay" /\ pc' = "delay"
          => /\ Len(snd'.currentText) > Len(snd.currentText)
             /\ snd'.currentText[Len(snd.currentText) + 1] = " "
             /\ \A k \in (Len(snd.currentText) + 2)..Len(snd'.currentText) :
                    snd'.currentText[k] # " "]_vars

\* a reply with two consecutive spaces and a newline: after the second
\* increment the revealed text ends in a space
C20_Witness ==
    /\ pc = "delay"
    /\ snd.fullContent = <<" ", " ", "\n">>
    /\ snd.i = 2
    /\ snd.currentText = <<" ">>

----------------------------------------------------------------------------
(* Claims about the transcript, the stored sessions and the end of a send *)

\* the roles and contents of a list of messages, as ChatWindow shows them
Shown(msgs) ==
    [k \in 1..Len(msgs) |-> <<heap[msgs[k]].role, heap[msgs[k]].content>>]

\* C22: whenever no send is in progress and currentSessionId names a stored
\* session, the displayed messages have the same sequence of roles and
\* contents as the stored messages of that session, after any sequence of
\* sends, handleNewChat and handleSelectSession.
C22_TranscriptIsCurrentSession ==
    (pc = "idle" /\ currentSessionId \in SessionIds)
        => Shown(messages) = Shown(FindSession(currentSessionId).messages)


\* the messages of the displayed transcript and of the stored sessions
DisplayedOrStored ==
    Range(messages) \cup UNION {Range(sessions[k].messages) : k \in 1..Len(sessions)}

\* C23: under any interleaving of a send with handleNewChat and
\* handleSelectSession, once the send has finished no message of the
\* displayed transcript or of a stored session has isStreaming true.
C23_NoStreamingAfterSend ==
    pc = "idle" => \A o \in DisplayedOrStored : heap[o].isStreaming # "true"


\* C24: once handleLogout has run, sessions stays empty and currentSessionId
\* stays 'new' until the next login, whatever a sendMessage that was already
\* in progress does: while nobody is logged in, no step of a send adds a
\* session, changes currentSessionId or issues a save request (the steps of
\* a pending history request are left aside).
C24_LogoutStaysCleared ==
    [][(/\ user = "null" /\ user' = "null"
        /\ sessions = <<>> /\ currentSessionId = NewSession
        /\ historyPending' = historyPending)
          => /\ sessions' = <<>>
             /\ currentSessionId' = NewSession
             /\ pc' = "save" => pc = "save"]_vars


----------------------------------------------------------------------------
(* Both Apps with requests that settle and timers that fire *)

\* the steps that continue a send: a request of the send settles or its
\* 20 ms timer fires
SendStep ==
    \/ \E fullContent \in Responses : chatResponse(fullContent)
    \/ chatError
    \/ streamNext
    \/ streamEnd
    \/ \E ok \in BOOLEAN : titleSettled(ok)
    \/ \E ok \in BOOLEAN : titleSettledAuth(ok)
    \/ saveOk
    \/ saveFail

\* what the user does between and during sends: typing a message, sending
\* it, opening a new chat, logging out
NextSettle ==
    \/ TypeInput(Prompt)
    \/ sendMessage
    \/ handleNewChat
    \/ handleLogout
    \/ SendStep

\* either App, with every send in progress eventually continued
SpecSettle == (Init \/ InitAuth) /\ [][NextSettle]_vars /\ WF_vars(SendStep)

\* C25: loading is true from the start of a send until that send finishes,
\* and every send whose requests settle eventually sets loading back to
\* false, whether it succeeds, the completion request fails, or the title
\* generation or the save request fails.
C25_LoadingUntilSendEnds ==
    /\ [](loading <=> pc # "idle")
    /\ [][pc # "idle" /\ pc' = "idle" => ~loading']_vars
    /\ (loading ~> ~loading)

\* a logged-in user's send in a new chat was streamed and its save request
\* failed: the send is over and loading is false
C25_Witness ==
    /\ variant = "auth"
    /\ loginCount = 0 /\ user # "null"
    /\ sendCount = 1
    /\ Len(saved) = 1
    /\ pc = "idle" /\ ~loading
    /\ currentSessionId = NewSession
    /\ Len(messages) = 2
    /\ heap[messages[2]].isStreaming = "false"
    /\ heap[messages[2]].content = <<"a">>


----------------------------------------------------------------------------
(* Claims about the final content of a streamed reply *)

\* C26: when a send completes with no navigation interleaved, the final
\* content of the assistant message equals the complete response character
\* for character, for every response, with leading, trailing or consecutive
\* spaces too: splitting on ' ' and joining with ' ' is an exact round trip.
C26_FinalContentIsResponse ==
    /\ [](pc \in {"delay", "title"}
             => /\ snd.words = SplitOn(snd.fullContent, " ")
                /\ JoinWith(snd.words, " ") = snd.fullContent)
    /\ [][pc = "delay" /\ pc' # "delay"
             => /\ snd.currentText = snd.fullContent
                /\ heap'[snd.assistantMessage].content = snd.fullContent
                /\ heap'[messages'[Len(messages')]].content = snd.fullContent]_vars
    /\ [][pc = "title" /\ pc' = "idle"
             => heap'[sessions'[1].messages[2]].content = snd.fullContent]_vars

\* a reply of three spaces has been streamed to its end
C26_Witness ==
    /\ pc = "title"
    /\ snd.fullContent = <<" ", " ", " ">>
    /\ Len(snd.words) = 4
    /\ messages[Len(messages)] = snd.assistantMessage
    /\ heap[snd.assistantMessage].content = <<" ", " ", " ">>
    /\ heap[snd.assistantMessage].isStreaming = "false"


----------------------------------------------------------------------------
(* Claims about overlapping copy triggers and failed clipboard writes *)

\* C27, as stated: overlapping copy triggers in rapid succession leave the
\* copied indicator stuck at true, that is, once a button was triggered while
\* its hide timer was pending and no hide timer is pending any more, copied
\* is still true.
C27_StuckAfterOverlap ==
    \A b \in Buttons : (overlapped[b] /\ timers[b] = <<>>) => copied[b]

\* C27, amended: the indicator is never stuck: whenever no hide timer of a
\* button is pending, its copied indicator is false, after overlapping
\* triggers too.
C27_NeverStuck ==
    \A b \in Buttons : timers[b] = <<>> => ~copied[b]

\* a button was triggered twice within 2000 ms, both timers have fired and
\* the indicator is off
C27_Witness ==
    \E b \in Buttons :
        /\ overlapped[b]
        /\ lastWrite[b] = "resolved"
        /\ timers[b] = <<>>
        /\ ~copied[b]
        /\ now = lastCopy[b] + CopyDelay

\* C28: a failed clipboard write (the write is rejected or the clipboard
\* capability is missing) is not shown to the user and does not disturb the
\* button: the trigger still sets copied to true and schedules the timer that
\* sets it back to false 2000 ms later, and later triggers keep working.
C28_FailedWriteStillConfirms ==
    [][\A b \in Buttons :
          (/\ lastWrite'[b] \in {"rejected", "TypeError"}
           /\ lastWrite'[b] # lastWrite[b] \/ lastCopy'[b] # lastCopy[b])
             => /\ copied'[b]
                /\ lastCopy'[b] = now
                /\ timers'[b] = Append(timers[b], now + CopyDelay)]_vars

====
